---- MODULE Spec2Model ----
(***************************************************************************)
(* Model of the visit-resolution engine of the mafia package               *)
(* (mafia/core.py, mafia/normal.py, nodes.py).                             *)
(*                                                                         *)
(* The game aggregate is one record, `game`; the Resolver's fields and the *)
(* position of a running resolve_game call are the other variables.        *)
(* resolve_game is modelled step by step: one step per resolve_visit call  *)
(* of a pass, one step for the tail of attempt_resolve (cycle-breaking,    *)
(* the fatal error, the loop test and the closing notices).                *)
(***************************************************************************)
EXTENDS Integers, Sequences, FiniteSets, TLC

VARIABLES
    applied,                \* a call of a pure function: arguments, result
    game,                   \* core.Game / normal.Game aggregate
    lazy_allowed,           \* Resolver.lazy_allowed
    held,                   \* the visits each player's role lets them ask for
    cap,                    \* bounds of this game: visits, calls, day
    pc,                     \* "idle" or "pass" (inside resolve_game)
    todo,                   \* rest of the sorted snapshot of the running pass
    failed_to_resolve,      \* local of attempt_resolve
    successfully_resolved,  \* local of attempt_resolve
    outcome,                \* how the last resolve_game call ended
    calls,                  \* number of resolve_game calls started
    start,                  \* ghost: the game when the running/last call started
    passStart,              \* ghost: the game when the running/last pass started
    resolved,               \* ghost: the visits the running pass has resolved,
                            \* each with its tags when it was resolved
    spared,                 \* ghost: visits pending after a cycle-breaking of
                            \* this call whose actor was on no cycle
    lastStep                \* ghost: what the last step of the engine did

vars == <<applied, game, lazy_allowed, held, cap, pc, todo,
          failed_to_resolve, successfully_resolved, outcome, calls, start,
          passStart, resolved, spared, lastStep>>

----------------------------------------------------------------------------
(* Bounds of the model. *)

MaxVisits == 3      \* length of game.visits up to which callers queue visits
MaxCalls == 2       \* resolve_game calls over the whole game
MaxDay == 2         \* last day number the game advances to

----------------------------------------------------------------------------
(* core.VisitStatus *)

PENDING == -1
FAILURE == 0
SUCCESS == 1

(* core.AbilityType *)
AT_ACTION == "ACTION"
AT_PASSIVE == "PASSIVE"
AT_SHARED_ACTION == "SHARED_ACTION"

(* core.Phase and the default Game.phase_order *)
DAY == "day"
NIGHT == "night"
NoPhase == "any"
phase_order == <<DAY, NIGHT>>

----------------------------------------------------------------------------
(* Players of the modelled game, in the order of game.players, and the     *)
(* tags of their alignments (normal.Town, normal.Mafia).                   *)

PlayerOrder == <<"Alice", "Bob", "Eve">>
Players == {PlayerOrder[k] : k \in 1..Len(PlayerOrder)}

\* the alignments the players are given unless a game says otherwise
TestAlignment == [p \in Players |-> IF p = "Eve" THEN "Mafia" ELSE "Town"]

\* player.alignment.id
AlignmentId(g, p) == g.alignment[p]

\* player.alignment.tags
AlignmentTags(g, p) ==
    IF AlignmentId(g, p) = "Mafia" THEN {"mafia", "chat", "informed"}
    ELSE IF AlignmentId(g, p) = "Serial Killer" THEN {"third_party"}
    ELSE {"town"}

----------------------------------------------------------------------------
(* Sequence helpers. *)

Range(s) == {s[k] : k \in 1..Len(s)}

RECURSIVE Ascending(_)
\* the members of a set of list indices in list order (Python's filter()
\* over game.visits yields the matching visits in list order)
Ascending(S) ==
    IF S = {} THEN <<>>
    ELSE LET m == CHOOSE x \in S : \A y \in S : x <= y
         IN <<m>> \o Ascending(S \ {m})

----------------------------------------------------------------------------
(* The abilities of mafia/normal.py that the model plays with.  An ability *)
(* is named by its id; the two abilities a Hider visit creates share the   *)
(* id "Hider" in the source and are told apart here by a suffix.           *)

ActionAbilities ==
    {"Vigilante", "Cop", "Doctor", "Roleblocker", "Jailkeeper", "Hider",
     "Commuter", "Rolestop", "Juggernaut", "Innocent Child", "Tracker"}
\* Bulletproof and Macho wrapped by XShot(1) and XShot(2): passive abilities
\* with the id and the tags of the class they wrap
XShotPassives == {"1-Shot Bulletproof", "2-Shot Bulletproof", "1-Shot Macho"}
PassiveAbilities == {"Bulletproof", "Macho"} \cup XShotPassives
SharedAbilities == {"Mafia Factional Kill"}
CreatedAbilities == {"Hider.ProtectSelf", "Hider.Lifelink"}
\* the Cop wrapped by XShot(1) and by XShot(2): action abilities with the id
\* and the tags of the Cop
XShotAbilities == {"1-Shot Cop", "2-Shot Cop"}

\* the Cop wrapped by stacks of check-restricting modifiers, each named as
\* its class is, with the stack of modifiers from the outermost inwards:
\* X1 and X2 are XShot(1) and XShot(2), N1 is NightX({1}), I is Indecisive
\* and NC is NonConsecutiveNight
ModifierStacks ==
    ("NightX(Cop)" :> <<"N1">>)
    @@ ("Indecisive(Cop)" :> <<"I">>)
    @@ ("NonConsecutiveNight(Cop)" :> <<"NC">>)
    @@ ("XShot1(XShot2(Cop))" :> <<"X1", "X2">>)
    @@ ("XShot2(XShot1(Cop))" :> <<"X2", "X1">>)
    @@ ("XShot2(NightX(Cop))" :> <<"X2", "N1">>)
    @@ ("NightX(XShot2(Cop))" :> <<"N1", "X2">>)
    @@ ("XShot2(Indecisive(Cop))" :> <<"X2", "I">>)
    @@ ("Indecisive(XShot2(Cop))" :> <<"I", "X2">>)
    @@ ("NonConsecutiveNight(XShot2(Cop))" :> <<"NC", "X2">>)
    @@ ("XShot1(NightX(XShot2(Cop)))" :> <<"X1", "N1", "X2">>)
ModifiedAbilities == DOMAIN ModifierStacks

\* the Watcher and the Hider wrapped by Personal: action abilities with the
\* id of the class they wrap
PersonalAbilities == {"Personal(Watcher)", "Personal(Hider)"}

Abilities ==
    ActionAbilities \cup PassiveAbilities \cup SharedAbilities
        \cup CreatedAbilities \cup XShotAbilities \cup ModifiedAbilities
        \cup PersonalAbilities

\* the ability class an XShot modifier wraps; an ability that is not wrapped
\* stands for itself
Unwrapped(a) ==
    IF a \in XShotAbilities \cup ModifiedAbilities THEN "Cop"
    ELSE IF a \in {"1-Shot Bulletproof", "2-Shot Bulletproof"}
    THEN "Bulletproof"
    ELSE IF a = "1-Shot Macho" THEN "Macho"
    ELSE a

\* Modifier.tags of the check-restricting modifiers
ModifierTags(m) == {}

\* Ability.tags of each ability class; a modified class has
\* ability.tags | self.tags of every modifier of its stack
AbilityTags(a) ==
    CASE a = "Mafia Factional Kill" -> {"kill", "factional_kill"}
      [] a \in ModifiedAbilities ->
            {"investigate", "gun"}
                \cup UNION {ModifierTags(ModifierStacks[a][k]) :
                               k \in 1..Len(ModifierStacks[a])}
      [] a = "Vigilante" -> {"kill", "gun"}
      [] a \in {"Cop", "1-Shot Cop", "2-Shot Cop", "Tracker"} ->
            {"investigate", "gun"}
      [] a = "Doctor" -> {"protect", "mafia_no_gun"}
      [] a = "Roleblocker" -> {"roleblock"}
      [] a = "Jailkeeper" -> {"protect", "roleblock"}
      [] a = "Juggernaut" -> {"juggernaut", "unstoppable"}
      [] a = "Commuter" -> {"rolestop", "commute", "unstoppable"}
      [] a = "Rolestop" -> {"rolestop"}
      [] a \in {"Bulletproof", "1-Shot Bulletproof", "2-Shot Bulletproof"} ->
            {"protect"}
      [] a \in {"Macho", "1-Shot Macho"} -> {"macho", "rolestop"}
      [] a = "Innocent Child" -> {"inform"}
         \* frozenset("simultaneous"): the set of the word's letters
      [] a = "Hider" -> {"s", "i", "m", "u", "l", "t", "a", "n", "e", "o"}
      [] a = "Personal(Watcher)" -> {"investigate", "gun", "personal"}
      [] a = "Personal(Hider)" ->
            {"s", "i", "m", "u", "l", "t", "a", "n", "e", "o", "personal"}
      [] a = "Hider.ProtectSelf" -> {"protect", "hidden"}
      [] a = "Hider.Lifelink" -> {"hidden"}

\* Ability.immediate
Immediate(a) == a = "Innocent Child"

\* Ability.target_count
TargetCount(a) == IF a = "Innocent Child" THEN 0 ELSE 1

\* Ability.phase (None: usable in every phase)
AbilityPhase(a) == IF a = "Innocent Child" THEN NoPhase ELSE NIGHT

\* the list of the player the ability sits in
TypeOf(a) ==
    IF a \in PassiveAbilities THEN AT_PASSIVE
    ELSE IF a \in SharedAbilities THEN AT_SHARED_ACTION
    ELSE AT_ACTION

\* Kill.killer: the class name of the kill ability
Killer(a) == IF a = "Mafia Factional Kill" THEN "MafiaFactionalKill" ELSE a

\* Rolestop.limit of the blocking abilities (NoLimit: None)
NoLimit == -1
Limit(a) == IF a = "Doctor" THEN 1 ELSE NoLimit

\* XShotPrototype.max_uses (NoLimit: the ability is not wrapped by XShot)
\* XShot.max_uses of a modifier (NoLimit: the modifier is no XShot)
Shots(m) == IF m = "X1" THEN 1 ELSE IF m = "X2" THEN 2 ELSE NoLimit

RECURSIVE StackMaxUses(_)
\* max_uses of the class a stack ends in: XShot.modify_ability keeps the
\* smaller of its own max_uses and the one of the class it wraps
StackMaxUses(stack) ==
    IF stack = <<>> THEN NoLimit
    ELSE LET inner == StackMaxUses(Tail(stack))
             own == Shots(Head(stack))
         IN IF own = NoLimit THEN inner
            ELSE IF inner # NoLimit /\ inner <= own THEN inner
            ELSE own

MaxUses(a) ==
    CASE a \in {"1-Shot Cop", "1-Shot Bulletproof", "1-Shot Macho"} -> 1
      [] a \in {"2-Shot Cop", "2-Shot Bulletproof"} -> 2
      [] a \in ModifiedAbilities -> StackMaxUses(ModifierStacks[a])
      [] OTHER -> NoLimit

----------------------------------------------------------------------------
(* Accessors of core.Game, core.Player and core.Visit on a game record g.  *)

\* Game.phase
Phase(g) == g.phase_order[g.phase_idx]

\* Player.is_alive
IsAlive(g, p) == g.death_causes[p] = <<>>

\* Visit.is_active
IsActive(g, v) ==
    v.phase = Phase(g) /\ v.day_no = g.day_no /\ v.status = PENDING

\* Visit.is_active_time
IsActiveTime(g, v) == v.day_no = g.day_no /\ v.phase = Phase(g)

\* Player.get_visits: indices of the visits the player performs
GetVisits(g, p) ==
    Ascending({k \in 1..Len(g.visits) : g.visits[k].actor = p})

\* Player.get_visitors: indices of the visits that target the player
GetVisitors(g, p) ==
    Ascending({k \in 1..Len(g.visits) : p \in Range(g.visits[k].targets)})

\* a kill that replaces the death causes of the game by the new one
KillPlayerOnly(g, p, cause) ==
    [g EXCEPT !.death_causes =
        [q \in Players |-> IF q = p THEN <<cause>> ELSE <<>>]]

\* Player.kill
KillPlayer(g, p, cause) ==
    [g EXCEPT !.death_causes[p] = Append(@, cause)]

\* Chat.send on a player's private_messages
SendPrivate(g, p, sender, content) ==
    [g EXCEPT !.private_messages[p] =
        Append(@, [sender |-> sender, content |-> content])]

\* Visit.__post_init__: phase and day of the game, targets filled with the
\* actor when omitted, tags joined with the ability's tags
NewVisit(g, actor, targets, a, atype, tags) ==
    [actor |-> actor,
     targets |-> targets,
     ability |-> a,
     ability_type |-> atype,
     phase |-> Phase(g),
     day_no |-> g.day_no,
     status |-> PENDING,
     tags |-> tags \cup AbilityTags(a),
     nperf |-> 0]      \* ghost: number of times the visit was performed

\* Ability.check of the base class
BaseCheck(g, actor, targets, a) ==
    /\ AbilityPhase(a) = NoPhase \/ Phase(g) = AbilityPhase(a)
    /\ IsAlive(g, actor)
    /\ \A t \in Range(targets) : IsAlive(g, t)
    /\ actor \notin Range(targets)

\* check of the abilities that may only target their actor
SelfCheck(g, actor, targets, a) ==
    /\ AbilityPhase(a) = NoPhase \/ Phase(g) = AbilityPhase(a)
    /\ IsAlive(g, actor)
    /\ \A t \in Range(targets) : IsAlive(g, t)
    /\ actor \in Range(targets)

\* Kill.check
KillCheck(g, actor, targets, a) ==
    /\ BaseCheck(g, actor, targets, a)
    /\ \A t \in Range(targets) :
          t \notin g.known_players[actor]
              \/ AlignmentId(g, t) # AlignmentId(g, actor)

\* check of the ability classes
AbilityCheck(g, actor, targets, a) ==
    CASE a \in {"Juggernaut", "Commuter"} -> SelfCheck(g, actor, targets, a)
      [] a \in {"Mafia Factional Kill", "Vigilante"} ->
            KillCheck(g, actor, targets, a)
      [] a = "Innocent Child" ->
            BaseCheck(g, actor, targets, a) /\ g.uses[actor][a] = 0
      [] OTHER -> BaseCheck(g, actor, targets, a)

\* the check XShot.modify_ability gives a wrapped ability, without its test
\* of the use counter
CheckUncounted(g, actor, targets, a) ==
    AbilityCheck(g, actor, targets, Unwrapped(a))

\* the nights of NightX({1})
Nights == {1}

\* the visits v of actor.action_history with method_self is v.ability and
\* game.day_no <= v.day_no + 1
RecentUses(g, actor, a) ==
    {k \in 1..Len(g.action_history[actor]) :
        /\ g.action_history[actor][k].ability = a
        /\ g.day_no <= g.action_history[actor][k].day_no + 1}

RECURSIVE StackCheck(_, _, _, _, _)
\* check of the class a stack of modifiers gives, from the outermost
\* modifier inwards; targets <<>> stands for None
StackCheck(g, actor, targets, a, stack) ==
    IF stack = <<>> THEN AbilityCheck(g, actor, targets, Unwrapped(a))
    ELSE LET m == Head(stack)
             inner == Tail(stack)
         IN CASE m \in {"X1", "X2"} ->
                    \* a class that is an XShotPrototype keeps its check
                    IF StackMaxUses(inner) # NoLimit
                    THEN StackCheck(g, actor, targets, a, inner)
                    ELSE /\ StackCheck(g, actor, targets, a, inner)
                         /\ g.uses[actor][a] < MaxUses(a)
              [] m = "N1" ->
                    /\ StackCheck(g, actor, targets, a, inner)
                    /\ g.day_no \in Nights
              [] m = "I" ->
                    LET filled == IF targets = <<>>
                                  THEN IF TargetCount(Unwrapped(a)) = 0
                                       THEN <<>> ELSE <<actor>>
                                  ELSE targets
                    IN /\ \A k \in RecentUses(g, actor, a) :
                             \A j \in 1..Len(filled) :
                                j \in 1..Len(g.action_history[actor][k].targets)
                                   => filled[j]
                                        # g.action_history[actor][k].targets[j]
                       /\ StackCheck(g, actor, filled, a, inner)
              [] m = "NC" ->
                    /\ RecentUses(g, actor, a) = {}
                    /\ StackCheck(g, actor, targets, a, inner)

\* check as the caller runs it before it queues a visit: the check of the
\* class, and for a modified ability the check its modifiers gave it
Check(g, actor, targets, a) ==
    IF a \in XShotAbilities \cup XShotPassives
    THEN /\ AbilityCheck(g, actor, targets, Unwrapped(a))
         /\ g.uses[actor][a] < MaxUses(a)
    ELSE IF a \in ModifiedAbilities
    THEN StackCheck(g, actor, targets, a, ModifierStacks[a])
    ELSE AbilityCheck(g, actor, targets, a)

----------------------------------------------------------------------------
(* perform of the abilities.  Every perform takes the game and the index   *)
(* of the performing visit in game.visits, and gives the game it leaves    *)
(* and the status it returns.                                              *)

Ret(g, status) == [g |-> g, status |-> status]

\* the first target of a visit (target, *_ = targets)
Target(v) == v.targets[1]

\* Roleblockable without its test of the ability type
RoleblockableWithPassives(v) == "unstoppable" \notin v.tags

\* Roleblockable without its test of the tag unstoppable
RoleblockableWithUnstoppable(v) == v.ability_type # AT_PASSIVE

\* the test of roleblock_player on a visit of the player
Roleblockable(v) ==
    v.ability_type # AT_PASSIVE /\ "unstoppable" \notin v.tags

RECURSIVE RoleblockLoop(_, _, _)
\* the loop of roleblock_player over the visits of the player
RoleblockLoop(g, visits, success) ==
    IF visits = <<>> THEN Ret(g, success)
    ELSE LET k == Head(visits)
         IN IF Roleblockable(g.visits[k])
            THEN RoleblockLoop(
                    [g EXCEPT !.visits[k].status = FAILURE,
                              !.visits[k].tags = @ \cup {"roleblocked"}],
                    Tail(visits), SUCCESS)
            ELSE RoleblockLoop(g, Tail(visits), success)

\* roleblock_player that stops at the first visit of the player
roleblock_player_first(g, player) ==
    LET visits == GetVisits(g, player)
    IN RoleblockLoop(g, IF visits = <<>> THEN <<>> ELSE <<Head(visits)>>,
                     FAILURE)

\* roleblock_player that fails no visit
roleblock_player_none(g, player) == Ret(g, FAILURE)

\* normal.roleblock_player
roleblock_player(g, player) ==
    RoleblockLoop(g, GetVisits(g, player), FAILURE)

\* Kill.perform without its wait for an active protect visit
KillPerformAtOnce(g, i) ==
    Ret(KillPlayer(g, Target(g.visits[i]), Killer(g.visits[i].ability)),
        SUCCESS)

\* Kill.perform
KillPerform(g, i) ==
    LET v == g.visits[i]
        target == Target(v)
    IN IF /\ "unstoppable" \notin v.tags
          /\ \E k \in Range(GetVisitors(g, target)) :
                IsActive(g, g.visits[k]) /\ "protect" \in g.visits[k].tags
       THEN Ret(g, PENDING)
       ELSE Ret(KillPlayer(g, target, Killer(v.ability)), SUCCESS)

\* Cop.get_message
CopMessage(g, target) ==
    IF "town" \in AlignmentTags(g, target)
    THEN <<target, "is aligned with the Town.">>
    ELSE <<target, "is not aligned with the Town!.">>

\* InvestigativeAbility.perform (of the Cop)
InvestigatePerform(g, i) ==
    LET v == g.visits[i]
    IN Ret(SendPrivate(g, v.actor, Unwrapped(v.ability),
                       CopMessage(g, Target(v))), SUCCESS)

\* Visit.is_self_target
IsSelfTarget(v) == \A t \in Range(v.targets) : t = v.actor

\* normal.visit_is_visible
visit_is_visible(g, v) ==
    /\ v.ability_type # AT_PASSIVE
    /\ "hidden" \notin v.tags
    /\ "roleblocked" \notin v.tags
    /\ ~IsSelfTarget(v)
    /\ IsActiveTime(g, v)

RECURSIVE VisibleTargets(_, _, _)
\* the loop of Tracker.get_message over the visits of the target: the
\* targets of every visible visit other than the tracking visit i
VisibleTargets(g, visits, i) ==
    IF visits = <<>> THEN <<>>
    ELSE LET k == Head(visits)
         IN (IF visit_is_visible(g, g.visits[k]) /\ k # i
             THEN g.visits[k].targets ELSE <<>>)
               \o VisibleTargets(g, Tail(visits), i)

\* Tracker.get_message
TrackerMessage(g, i, target) ==
    LET visits == VisibleTargets(g, GetVisits(g, target), i)
    IN IF visits # <<>> THEN <<target, "targeted", visits>>
       ELSE <<target, "did not target anyone.">>

\* Tracker.perform without its wait for a pending roleblock on the target
TrackerPerformAtOnce(g, i) ==
    LET v == g.visits[i]
    IN Ret(SendPrivate(g, v.actor, v.ability,
                       TrackerMessage(g, i, Target(v))), SUCCESS)

\* Tracker.perform
TrackerPerform(g, i) ==
    LET v == g.visits[i]
    IN IF \E k \in Range(GetVisitors(g, Target(v))) :
            IsActive(g, g.visits[k]) /\ "roleblock" \in g.visits[k].tags
       THEN Ret(g, PENDING)
       ELSE Ret(SendPrivate(g, v.actor, v.ability,
                            TrackerMessage(g, i, Target(v))), SUCCESS)

\* Rolestop.block_check and its overrides
BlockCheck(g, i, k) ==
    LET a == Unwrapped(g.visits[i].ability)
        checked == g.visits[k]
    IN CASE a \in {"Doctor", "Jailkeeper", "Bulletproof"} ->
                "kill" \in checked.tags
         [] a = "Hider.ProtectSelf" ->
                "kill" \in checked.tags /\ checked.ability_type # AT_PASSIVE
         [] a = "Macho" -> "protect" \in checked.tags
         [] OTHER -> TRUE

\* Rolestop.block_visit
BlockVisit(g, k) == [g EXCEPT !.visits[k].status = FAILURE]

RECURSIVE BlockLoop(_, _, _, _, _)
\* the loop of Rolestop.perform over the visitors of the target
BlockLoop(g, i, visitors, successes, max_blocks) ==
    IF visitors = <<>> THEN Ret(g, successes)
    ELSE LET k == Head(visitors)
         IN IF /\ IsActive(g, g.visits[k])
               /\ "unstoppable" \notin g.visits[k].tags
               /\ BlockCheck(g, i, k)
            THEN IF max_blocks # NoLimit /\ max_blocks <= successes + 1
                 THEN Ret(BlockVisit(g, k), successes + 1)
                 ELSE BlockLoop(BlockVisit(g, k), i, Tail(visitors),
                                successes + 1, max_blocks)
            ELSE BlockLoop(g, i, Tail(visitors), successes, max_blocks)

\* max_blocks of Rolestop.perform
MaxBlocks(g, v) ==
    IF v.ability_type = AT_PASSIVE /\ MaxUses(v.ability) # NoLimit
    THEN LET uses_remaining == MaxUses(v.ability) - g.uses[v.actor][v.ability]
         IN IF Limit(v.ability) # NoLimit /\ Limit(v.ability) < uses_remaining
            THEN Limit(v.ability)
            \* a max_blocks below zero ends the loop as zero does
            ELSE IF uses_remaining < 0 THEN 0
            ELSE uses_remaining
    ELSE Limit(v.ability)

\* Rolestop.perform
RolestopPerform(g, i) ==
    LET v == g.visits[i]
        target == Target(v)
    IN IF \E t \in Range(GetVisitors(g, target)) :
            /\ IsActive(g, g.visits[t])
            /\ \E w \in Range(GetVisitors(g, g.visits[t].actor)) :
                  IsActive(g, g.visits[w]) /\ "juggernaut" \in g.visits[w].tags
       THEN Ret(g, PENDING)
       ELSE BlockLoop(g, i, GetVisitors(g, target), 0, MaxBlocks(g, v))

\* ProtectiveAbility.perform
ProtectPerform(g, i) ==
    LET target == Target(g.visits[i])
    IN IF \E k \in Range(GetVisitors(g, target)) :
            IsActive(g, g.visits[k]) /\ "macho" \in g.visits[k].tags
       THEN Ret(g, PENDING)
       ELSE RolestopPerform(g, i)

\* Jailkeeper.perform
JailkeeperPerform(g, i) ==
    LET roleblock_result == roleblock_player(g, Target(g.visits[i]))
        protection_result == ProtectPerform(roleblock_result.g, i)
    IN Ret(protection_result.g,
           IF roleblock_result.status # 0 \/ protection_result.status # 0
           THEN SUCCESS ELSE FAILURE)

\* Roleblocker.perform
RoleblockerPerform(g, i) == roleblock_player(g, Target(g.visits[i]))

RECURSIVE UpgradeLoop(_, _, _, _)
\* the loop of Juggernaut.perform over the visits of the target
UpgradeLoop(g, visits, successes, max_upgrades) ==
    IF visits = <<>> THEN Ret(g, successes)
    ELSE LET k == Head(visits)
         IN IF "factional_kill" \in g.visits[k].tags
                /\ IsActive(g, g.visits[k])
            THEN LET g2 == [g EXCEPT !.visits[k].tags = @ \cup {"unstoppable"}]
                 IN IF max_upgrades # NoLimit /\ max_upgrades <= successes + 1
                    THEN Ret(g2, successes + 1)
                    ELSE UpgradeLoop(g2, Tail(visits), successes + 1,
                                     max_upgrades)
            ELSE UpgradeLoop(g, Tail(visits), successes, max_upgrades)

\* a Juggernaut.perform that upgrades no visit
JuggernautPerformIdle(g, i) == Ret(g, FAILURE)

\* Juggernaut.perform
JuggernautPerform(g, i) ==
    LET v == g.visits[i]
        max_upgrades ==
            IF v.ability_type = AT_PASSIVE /\ MaxUses(v.ability) # NoLimit
            THEN MaxUses(v.ability) - g.uses[v.actor][v.ability]
            ELSE NoLimit
    IN UpgradeLoop(g, GetVisits(g, Target(v)), 0, max_upgrades)

RECURSIVE CommuteVisitors(_, _, _)
\* the first loop of Commuter.perform: the visitors of the commuter
CommuteVisitors(g, visitors, success) ==
    IF visitors = <<>> THEN Ret(g, success)
    ELSE LET k == Head(visitors)
         IN IF IsActive(g, g.visits[k])
            THEN CommuteVisitors([g EXCEPT !.visits[k].status = FAILURE],
                                 Tail(visitors), SUCCESS)
            ELSE CommuteVisitors(g, Tail(visitors), success)

RECURSIVE CommuteOwn(_, _, _)
\* the second loop of Commuter.perform: the other visits of the commuter
CommuteOwn(g, i, visits) ==
    IF visits = <<>> THEN g
    ELSE LET k == Head(visits)
         IN IF k # i /\ IsActive(g, g.visits[k])
            THEN CommuteOwn([g EXCEPT !.visits[k].status = FAILURE], i,
                            Tail(visits))
            ELSE CommuteOwn(g, i, Tail(visits))

\* Commuter.perform
CommuterPerform(g, i) ==
    LET target == Target(g.visits[i])
        r == CommuteVisitors(g, GetVisitors(g, target), FAILURE)
    IN Ret(CommuteOwn(r.g, i, GetVisits(r.g, target)), r.status)

\* Hider.Hider.perform: queues the two visits of the hide
HiderPerform(g, i) ==
    LET v == g.visits[i]
    IN Ret([g EXCEPT !.visits =
              @ \o <<NewVisit(g, v.actor, <<v.actor>>, "Hider.ProtectSelf",
                              AT_PASSIVE, {}),
                     NewVisit(g, v.actor, v.targets, "Hider.Lifelink",
                              AT_ACTION, {})>>],
           SUCCESS)

\* Hider.Hider.Lifelink.perform
LifelinkPerform(g, i) ==
    LET v == g.visits[i]
        kills(ok(_)) ==
            \E k \in Range(GetVisitors(g, Target(v))) :
                /\ ok(g.visits[k])
                /\ g.visits[k].ability_type # AT_PASSIVE
                /\ "kill" \in g.visits[k].tags
        succeeded(w) == w.status = SUCCESS
        active(w) == IsActive(g, w)
    IN IF kills(succeeded) THEN Ret(KillPlayer(g, v.actor, "Hider"), FAILURE)
       ELSE IF kills(active) THEN Ret(g, PENDING)
       ELSE Ret(g, SUCCESS)

\* InnocentChild.perform
InnocentChildPerform(g, i) ==
    LET v == g.visits[i]
    IN Ret([g EXCEPT !.chats["global"] =
              Append(@, [sender |-> v.ability,
                         content |-> <<v.actor, "is aligned with the",
                                       AlignmentId(g, v.actor)>>])],
           SUCCESS)

\* Visit.perform: the perform of the visit's ability
Perform(g, i) ==
    LET a == Unwrapped(g.visits[i].ability)
    IN CASE a \in {"Mafia Factional Kill", "Vigilante"} -> KillPerform(g, i)
         [] a = "Cop" -> InvestigatePerform(g, i)
         [] a = "Tracker" -> TrackerPerform(g, i)
         [] a \in {"Doctor", "Bulletproof", "Hider.ProtectSelf"} ->
                ProtectPerform(g, i)
         [] a \in {"Rolestop", "Macho"} -> RolestopPerform(g, i)
         [] a = "Jailkeeper" -> JailkeeperPerform(g, i)
         [] a = "Roleblocker" -> RoleblockerPerform(g, i)
         [] a = "Juggernaut" -> JuggernautPerform(g, i)
         [] a = "Commuter" -> CommuterPerform(g, i)
         [] a = "Hider" -> HiderPerform(g, i)
         [] a = "Hider.Lifelink" -> LifelinkPerform(g, i)
         [] a = "Innocent Child" -> InnocentChildPerform(g, i)

----------------------------------------------------------------------------
(* nodes.py: nodes_in_cycles, Tarjan's algorithm.  The state of the       *)
(* search is a record: index counter, indices and lowlink (Unset where the *)
(* dict has no entry), the stack with its set view, and the components     *)
(* found so far.                                                           *)

Unset == -1

Min(a, b) == IF a <= b THEN a ELSE b

RECURSIVE Adjacency(_, _)
\* graph[u].append(v) for every edge, in edge order
Adjacency(edges, u) ==
    IF edges = <<>> THEN <<>>
    ELSE IF Head(edges)[1] = u
         THEN <<Head(edges)[2]>> \o Adjacency(Tail(edges), u)
         ELSE Adjacency(Tail(edges), u)

EdgeNodes(edges) ==
    {edges[k][1] : k \in 1..Len(edges)} \cup {edges[k][2] : k \in 1..Len(edges)}

RECURSIVE PopComponent(_, _, _)
\* the while-loop at the root of a component: pop down to v
PopComponent(st, v, scc) ==
    LET w == st.stack[Len(st.stack)]
        st2 == [st EXCEPT !.stack = SubSeq(@, 1, Len(@) - 1),
                          !.onstack = @ \ {w}]
    IN IF w = v
       THEN [st2 EXCEPT !.sccs = Append(@, Append(scc, w))]
       ELSE PopComponent(st2, v, Append(scc, w))

RECURSIVE strongconnect(_, _, _)
RECURSIVE Successors(_, _, _, _)

\* the for-loop of strongconnect over graph[v]
Successors(edges, v, succs, st) ==
    IF succs = <<>> THEN st
    ELSE LET w == Head(succs)
         IN IF st.indices[w] = Unset
            THEN LET st2 == strongconnect(edges, w, st)
                 IN Successors(edges, v, Tail(succs),
                        [st2 EXCEPT !.lowlink[v] = Min(@, st2.lowlink[w])])
            ELSE IF w \in st.onstack
            THEN Successors(edges, v, Tail(succs),
                        [st EXCEPT !.lowlink[v] = Min(@, st.indices[w])])
            ELSE Successors(edges, v, Tail(succs), st)

strongconnect(edges, v, st) ==
    LET st1 == [st EXCEPT !.indices[v] = st.index,
                          !.lowlink[v] = st.index,
                          !.index = @ + 1,
                          !.stack = Append(@, v),
                          !.onstack = @ \cup {v}]
        st2 == Successors(edges, v, Adjacency(edges, v), st1)
    IN IF st2.lowlink[v] = st2.indices[v]
       THEN PopComponent(st2, v, <<>>)
       ELSE st2

RECURSIVE SearchAll(_, _, _)
\* for v in nodes: if v not in indices: strongconnect(v)
SearchAll(edges, order, st) ==
    IF order = <<>> THEN st
    ELSE IF st.indices[Head(order)] = Unset
         THEN SearchAll(edges, Tail(order), strongconnect(edges, Head(order), st))
         ELSE SearchAll(edges, Tail(order), st)

\* nodes_in_cycles that takes a component of one node for acyclic
nodes_in_cycles_sized(edges, order) ==
    LET nodes == EdgeNodes(edges)
        st0 == [index |-> 0,
                indices |-> [n \in nodes |-> Unset],
                lowlink |-> [n \in nodes |-> Unset],
                stack |-> <<>>,
                onstack |-> {},
                sccs |-> <<>>]
        st == SearchAll(edges, order, st0)
    IN UNION {Range(st.sccs[k]) :
                 k \in {j \in 1..Len(st.sccs) : Len(st.sccs[j]) > 1}}

\* nodes_in_cycles(edges), with the set `nodes` iterated in the given order
nodes_in_cycles(edges, order) ==
    LET nodes == EdgeNodes(edges)
        st0 == [index |-> 0,
                indices |-> [n \in nodes |-> Unset],
                lowlink |-> [n \in nodes |-> Unset],
                stack |-> <<>>,
                onstack |-> {},
                sccs |-> <<>>]
        st == SearchAll(edges, order, st0)
        cyclic(scc) ==
            \/ Len(scc) > 1
            \/ scc[1] \in Range(Adjacency(edges, scc[1]))
    IN UNION {Range(st.sccs[k]) : k \in {j \in 1..Len(st.sccs) : cyclic(st.sccs[j])}}

\* the order in which the model iterates a set of players
PlayersInOrder(S) ==
    SelectSeq(PlayerOrder, LAMBDA p : p \in S)

----------------------------------------------------------------------------
(* normal.Resolver *)

\* the lines of do_visit after visit.perform(game) gave r: the status of the
\* visit, and the uses of a passive ability
RecordPerformed(r, i) ==
    LET v == r.g.visits[i]
        g2 == [r.g EXCEPT !.visits[i].status = r.status,
                          !.visits[i].nperf = @ + 1]
    IN IF v.ability_type = AT_PASSIVE /\ r.status # PENDING
       THEN Ret([g2 EXCEPT !.uses[v.actor][v.ability] = @ + r.status],
                r.status)
       ELSE Ret(g2, r.status)

\* Resolver.do_visit
do_visit(g, i) == RecordPerformed(Perform(g, i), i)

\* is some active visitor of a target of visit v tagged with tag?
TargetHasActive(g, v, tag) ==
    \E t \in Range(v.targets) :
        \E k \in Range(GetVisitors(g, t)) :
            IsActive(g, g.visits[k]) /\ tag \in g.visits[k].tags

\* resolve_visit without its wait for a pending roleblock on the actor
resolve_visit_unblocked(g, i, lazy) ==
    LET v == g.visits[i]
        \* the branch the tests of resolve_visit take, in their order
        branch ==
            IF "lazy" \in v.tags /\ ~lazy THEN "fail"
            ELSE IF Immediate(v.ability) THEN "do_visit"
            ELSE IF TargetHasActive(g, v, "commute") THEN "pending"
            ELSE IF "unstoppable" \in v.tags THEN "do_visit"
            ELSE IF /\ v.ability_type # AT_PASSIVE
                    /\ TargetHasActive(g, v, "rolestop")
                 THEN "pending"
            ELSE IF "roleblock" \in v.tags /\ TargetHasActive(g, v, "juggernaut")
                 THEN "pending"
            ELSE "do_visit"
    IN CASE branch = "fail" ->
                Ret([g EXCEPT !.visits[i].status = FAILURE], FAILURE)
         [] branch = "pending" -> Ret(g, PENDING)
         [] OTHER -> do_visit(g, i)

\* Resolver.resolve_visit
resolve_visit(g, i, lazy) ==
    LET v == g.visits[i]
        \* the branch the tests of resolve_visit take, in their order
        branch ==
            IF "lazy" \in v.tags /\ ~lazy THEN "fail"
            ELSE IF Immediate(v.ability) THEN "do_visit"
            ELSE IF TargetHasActive(g, v, "commute") THEN "pending"
            ELSE IF "unstoppable" \in v.tags THEN "do_visit"
            ELSE IF /\ v.ability_type # AT_PASSIVE
                    /\ \E k \in Range(GetVisitors(g, v.actor)) :
                          /\ IsActive(g, g.visits[k])
                          /\ "roleblock" \in g.visits[k].tags
                 THEN "pending"
            ELSE IF /\ v.ability_type # AT_PASSIVE
                    /\ TargetHasActive(g, v, "rolestop")
                 THEN "pending"
            ELSE IF "roleblock" \in v.tags /\ TargetHasActive(g, v, "juggernaut")
                 THEN "pending"
            ELSE "do_visit"
    IN CASE branch = "fail" ->
                Ret([g EXCEPT !.visits[i].status = FAILURE], FAILURE)
         [] branch = "pending" -> Ret(g, PENDING)
         [] OTHER -> do_visit(g, i)

RECURSIVE LogFrom(_, _)
\* Resolver.log_visits, from visit k on
LogFrom(g, k) ==
    IF k > Len(g.visits) THEN g
    ELSE LET v == g.visits[k]
         IN IF v.ability_type # AT_PASSIVE /\ IsActive(g, v)
            THEN LogFrom([g EXCEPT !.uses[v.actor][v.ability] = @ + 1,
                                   !.action_history[v.actor] = Append(@, v)],
                         k + 1)
            ELSE LogFrom(g, k + 1)

\* log_visits that starts a fresh vote ledger
log_visits_fresh_ledger(g) ==
    [LogFrom(g, 1) EXCEPT !.votes = [p \in DOMAIN g.votes |-> "not voted"]]

\* Resolver.log_visits
log_visits(g) == LogFrom(g, 1)

RECURSIVE ImmediateFrom(_, _, _)
\* the first loop of resolve_game: every visit of an immediate ability
ImmediateFrom(g, k, lazy) ==
    IF k > Len(g.visits) THEN g
    ELSE IF Immediate(g.visits[k].ability)
         THEN ImmediateFrom(resolve_visit(g, k, lazy).g, k + 1, lazy)
         ELSE ImmediateFrom(g, k + 1, lazy)

\* the visits of game.visits in the order of the list, unsorted
UnsortedVisits(g) == Ascending(1..Len(g.visits))

\* sorted(game.visits, key=(simultaneous, unstoppable), reverse=True):
\* a stable sort, so each priority class keeps the list order
SortedVisits(g) ==
    LET class(si, un) ==
            Ascending({k \in 1..Len(g.visits) :
                         /\ ("simultaneous" \in g.visits[k].tags) = si
                         /\ ("unstoppable" \in g.visits[k].tags) = un})
    IN class(TRUE, TRUE) \o class(TRUE, FALSE)
          \o class(FALSE, TRUE) \o class(FALSE, FALSE)

RECURSIVE SkipInactive(_, _)
\* if not visit.is_active(game): continue
SkipInactive(g, order) ==
    IF order = <<>> THEN <<>>
    ELSE IF IsActive(g, g.visits[Head(order)]) THEN order
    ELSE SkipInactive(g, Tail(order))

\* the Catastrophic Rule that roleblocks only the player iterated first
RoleblockFirst(g, players) ==
    IF players = <<>> THEN g ELSE roleblock_player(g, Head(players)).g

RECURSIVE RoleblockAll(_, _)
\* for player in catastrophic_rule_players: roleblock_player(game, player)
RoleblockAll(g, players) ==
    IF players = <<>> THEN g
    ELSE RoleblockAll(roleblock_player(g, Head(players)).g, Tail(players))

RECURSIVE TargetEdges(_, _)
\* (visit.actor, t) for t in visit.targets
TargetEdges(actor, targets) ==
    IF targets = <<>> THEN <<>>
    ELSE <<<<actor, Head(targets)>>>> \o TargetEdges(actor, Tail(targets))

RECURSIVE RoleblockEdges(_, _)
\* roleblocking_visits of resolve_cycles, from visit k on
RoleblockEdges(g, k) ==
    IF k > Len(g.visits) THEN <<>>
    ELSE LET v == g.visits[k]
         IN IF IsActive(g, v) /\ "roleblock" \in v.tags
            THEN TargetEdges(v.actor, v.targets) \o RoleblockEdges(g, k + 1)
            ELSE RoleblockEdges(g, k + 1)

\* catastrophic_rule_players that takes every node of the graph for cyclic
\* once the graph has a cycle
CatastrophicRuleAllNodes(g) ==
    LET edges == RoleblockEdges(g, 1)
        nodes == EdgeNodes(edges)
    IN IF nodes_in_cycles(edges, PlayersInOrder(nodes)) = {} THEN {}
       ELSE nodes

\* catastrophic_rule_players of resolve_cycles
CatastrophicRulePlayers(g) ==
    LET edges == RoleblockEdges(g, 1)
    IN nodes_in_cycles(edges, PlayersInOrder(EdgeNodes(edges)))

\* resolve_cycles that reports success without breaking anything
resolve_cycles_idle(g) == [g |-> g, successfully_resolved |-> TRUE]

\* Resolver.resolve_cycles
resolve_cycles(g) ==
    LET players == CatastrophicRulePlayers(g)
    IN [g |-> RoleblockAll(g, PlayersInOrder(players)),
        successfully_resolved |-> players # {}]

NoResult == "Your ability failed, and you did not recieve a result."

RECURSIVE NoticesFrom(_, _)
\* the last loop of resolve_game, from visit k on
NoticesFrom(g, k) ==
    IF k > Len(g.visits) THEN g
    ELSE LET v == g.visits[k]
         IN IF /\ "investigate" \in v.tags
               /\ IsActiveTime(g, v)
               /\ v.status = FAILURE
            THEN NoticesFrom(SendPrivate(g, v.actor, Unwrapped(v.ability),
                                         NoResult), k + 1)
            ELSE NoticesFrom(g, k + 1)

----------------------------------------------------------------------------
(* State machine. *)

\* Game(start_phase=NIGHT) after add_player of the three players; Eve is the
\* only member of the informed faction, so nobody knows anybody
\* game.votes[p] of a player who has no entry in the ledger, and the
\* target None of a vote to eliminate no one
NotVoted == "not voted"
NoElimination == "no elimination"

\* a game whose players were added with the given alignments
NewGameOf(alignment) ==
    [alignment |-> alignment,
     votes |-> [p \in Players |-> NotVoted],
     visits |-> <<>>,
     day_no |-> 1,
     phase_order |-> phase_order,
     phase_idx |-> 2,
     death_causes |-> [p \in Players |-> <<>>],
     private_messages |-> [p \in Players |-> <<>>],
     uses |-> [p \in Players |-> [a \in Abilities |-> 0]],
     action_history |-> [p \in Players |-> <<>>],
     known_players |->
        [p \in Players |->
            {q \in Players \ {p} :
                alignment[p] = "Mafia" /\ alignment[q] = alignment[p]}],
     queued_visits |-> <<>>,
     chats |-> [c \in {"global"} |-> <<>>]]

NewGame == NewGameOf(TestAlignment)

\* the bounds a game is explored to
Cap(nvisits, ncalls, nday) ==
    [visits |-> nvisits, calls |-> ncalls, day |-> nday]

\* no call of nodes_in_cycles from outside the resolver
NoCall == [edges |-> <<>>, order |-> <<>>, result |-> {}]

\* the state after the games of `games` are set up for the roster
InitGames(roster, c, games) ==
    /\ applied = NoCall
    /\ game \in games
    /\ lazy_allowed = TRUE
    /\ held \in roster
    /\ cap = c
    /\ pc = "idle"
    /\ todo = <<>>
    /\ failed_to_resolve = FALSE
    /\ successfully_resolved = FALSE
    /\ outcome = "none"
    /\ calls = 0
    /\ start = game
    /\ passStart = game
    /\ resolved = <<>>
    /\ spared = {}
    /\ lastStep = "init"

InitWith(roster, c) == InitGames(roster, c, {NewGame})

\* target tuples a caller can pass for an ability
TargetTuples(a) ==
    IF TargetCount(a) = 0 THEN {<<>>} ELSE {<<t>> : t \in Players}

\* every request <<ability, targets>> a holder of the abilities can make
Offers(abilities) ==
    UNION {{<<a, t>> : t \in TargetTuples(a)} : a \in abilities}

\* a roster: the requests open to Alice, to Bob and to Eve
Roster(alice, bob, eve) ==
    [p \in Players |->
        IF p = "Alice" THEN alice ELSE IF p = "Bob" THEN bob ELSE eve]

\* A caller queues a visit after the ability's check passed
\* (Resolver.make_visit / Resolver.add_passives, game.visits.append).
QueueVisit(actor, a, targets) ==
    /\ pc = "idle"
    /\ Len(game.visits) < cap.visits
    /\ <<a, targets>> \in held[actor]
    /\ IF TypeOf(a) = AT_PASSIVE
       THEN targets = <<actor>> /\ Check(game, actor, <<>>, a)
       ELSE Check(game, actor, targets, a)
    /\ game' = [game EXCEPT !.visits =
                    Append(@, NewVisit(game, actor, targets, a, TypeOf(a), {}))]
    /\ lastStep' = "queue"
    /\ UNCHANGED <<applied, lazy_allowed, held, cap, pc, todo, failed_to_resolve,
                   successfully_resolved, outcome, calls, start, passStart,
                   resolved, spared>>

\* resolve_game up to the first pass: log_visits and the immediate loop
ResolveGameOf(g0) ==
    /\ pc = "idle"
    /\ calls < cap.calls
    /\ \E g \in {ImmediateFrom(log_visits(g0), 1, lazy_allowed)} :
          /\ game' = g
          /\ todo' = SortedVisits(g)
          /\ passStart' = g
    /\ start' = g0
    /\ spared' = {}
    /\ pc' = "pass"
    /\ failed_to_resolve' = FALSE
    /\ successfully_resolved' = FALSE
    /\ outcome' = "running"
    /\ calls' = calls + 1
    /\ lastStep' = "begin"
    /\ resolved' = <<>>
    /\ UNCHANGED <<applied, lazy_allowed, held, cap>>

\* a caller runs resolve_game on the game as it stands
ResolveGame == ResolveGameOf(game)

\* one iteration of the for-loop of attempt_resolve on an active visit
ResolveVisit ==
    /\ pc = "pass"
    /\ SkipInactive(game, todo) # <<>>
    /\ LET rest == SkipInactive(game, todo)
       IN \E r \in {resolve_visit(game, Head(rest), lazy_allowed)} :
          /\ game' = r.g
          /\ todo' = Tail(rest)
          /\ resolved' = Append(resolved,
                                [visit |-> Head(rest),
                                 tags |-> game.visits[Head(rest)].tags])
          /\ failed_to_resolve' = (failed_to_resolve \/ r.status = PENDING)
          /\ successfully_resolved' =
                (successfully_resolved \/ r.status # PENDING)
    /\ lastStep' = "visit"
    /\ UNCHANGED <<applied, lazy_allowed, held, cap, pc, outcome, calls, start, passStart,
                   spared>>

\* the tail of attempt_resolve once the for-loop is through, the loop test
\* of resolve_game, and the notices that close resolve_game
AttemptResolveEnd ==
    /\ pc = "pass"
    /\ SkipInactive(game, todo) = <<>>
    /\ LET stuck == failed_to_resolve /\ ~successfully_resolved
           c == resolve_cycles(game)
           raise == stuck /\ ~c.successfully_resolved
       IN IF raise
          THEN \* RuntimeError("Failed to resolve game.")
               /\ pc' = "idle"
               /\ outcome' = "raised"
               /\ lastStep' = "raise"
               /\ todo' = <<>>
               /\ UNCHANGED <<game, passStart, spared>>
          ELSE IF failed_to_resolve
          THEN \* attempt_resolve returns True: the next pass
               \E g \in {IF stuck THEN c.g ELSE game} :
               /\ game' = g
               /\ todo' = SortedVisits(g)
               /\ passStart' = g
               /\ lastStep' = IF stuck THEN "cycles" ELSE "loop"
               /\ spared' =
                    IF stuck
                    THEN spared \cup
                         {i \in 1..Len(g.visits) :
                             /\ IsActive(g, g.visits[i])
                             /\ g.visits[i].actor
                                   \notin CatastrophicRulePlayers(game)}
                    ELSE spared
               /\ UNCHANGED <<pc, outcome>>
          ELSE \* the loop ends: investigation notices, normal return
               /\ game' = NoticesFrom(game, 1)
               /\ pc' = "idle"
               /\ outcome' = "returned"
               /\ lastStep' = "return"
               /\ todo' = <<>>
               /\ UNCHANGED <<passStart, spared>>
    /\ failed_to_resolve' = FALSE
    /\ successfully_resolved' = FALSE
    /\ resolved' = <<>>
    /\ UNCHANGED <<applied, lazy_allowed, held, cap, calls, start>>

\* advance_phase that leaves the vote ledger as it is
advance_phase_keeping(g) ==
    IF g.phase_idx + 1 > Len(g.phase_order)
    THEN [g EXCEPT !.phase_idx = 1, !.day_no = @ + 1]
    ELSE [g EXCEPT !.phase_idx = @ + 1]

\* Game.advance_phase
advance_phase(g) ==
    LET moved == IF g.phase_idx + 1 > Len(g.phase_order)
                 THEN [g EXCEPT !.phase_idx = 1, !.day_no = @ + 1]
                 ELSE [g EXCEPT !.phase_idx = @ + 1]
    IN [moved EXCEPT !.votes = [p \in Players |-> NotVoted]]

\* a caller advances the phase
AdvancePhase ==
    /\ pc = "idle"
    /\ game.phase_idx + 1 > Len(game.phase_order) => game.day_no < cap.day
    /\ game' = advance_phase(game)
    /\ lastStep' = "advance"
    /\ UNCHANGED <<applied, lazy_allowed, held, cap, pc, todo, failed_to_resolve,
                   successfully_resolved, outcome, calls, start, passStart,
                   resolved, spared>>

Next ==
    \/ \E actor \in Players :
          \E offer \in held[actor] : QueueVisit(actor, offer[1], offer[2])
    \/ ResolveGame
    \/ ResolveVisit
    \/ AttemptResolveEnd
    \/ AdvancePhase

\* one request <<ability, <<target>>>>
Offer(a, target) == <<a, <<target>>>>

\* the players and the visits of test_catastrophic_rule: Alice a Cop, Bob a
\* Jailkeeper, Eve a Roleblocker of the Mafia
CatastrophicRoster ==
    {Roster({Offer("Cop", "Eve")},
            {Offer("Jailkeeper", "Eve")},
            {Offer("Roleblocker", "Bob"), Offer("Mafia Factional Kill", "Alice")})}

Init == InitWith(CatastrophicRoster, Cap(MaxVisits, MaxCalls, MaxDay))

Spec == Init /\ [][Next]_vars

\* resolve_game is sequential code: a call that has begun runs on to its
\* return or to its raise.  This is weak fairness of the steps of the loop,
\* with the condition under which such a step is enabled (pc = "pass")
\* written out
LoopRuns ==
    \/ []<>(pc # "pass")
    \/ []<><<ResolveVisit \/ AttemptResolveEnd>>_vars

\* the players of test_hider next to a Roleblocker and a Roleblocker and
\* Commuter of the Mafia
HideRoster ==
    {Roster({Offer("Hider", "Bob")},
            {Offer("Roleblocker", "Eve")},
            {Offer("Roleblocker", "Bob"), Offer("Commuter", "Eve")})}

InitHide == InitWith(HideRoster, Cap(MaxVisits, MaxCalls, MaxDay))

SpecHide == InitHide /\ [][Next]_vars /\ LoopRuns

\* three Roleblockers, one of them Bulletproof
BlockRoster ==
    {Roster({Offer("Roleblocker", "Bob"), Offer("Bulletproof", "Alice")},
            {Offer("Roleblocker", "Alice")},
            {Offer("Roleblocker", "Alice")})}

InitBlock == InitWith(BlockRoster, Cap(MaxVisits, MaxCalls, MaxDay))

SpecBlock == InitBlock /\ [][Next]_vars

\* two Roleblockers, one of them with two requests, next to a player who
\* is Doctor and Vigilante; two visits more and one call less than elsewhere
ScopeRoster ==
    {Roster({Offer("Roleblocker", "Bob"), Offer("Roleblocker", "Eve")},
            {Offer("Roleblocker", "Alice")},
            {Offer("Doctor", "Bob"), Offer("Vigilante", "Bob")})}

InitScope == InitWith(ScopeRoster, Cap(MaxVisits + 2, MaxCalls - 1, MaxDay))

SpecScope == InitScope /\ [][Next]_vars

\* the players of test_protection, the Mafia member a Roleblocker too, next
\* to a Jailkeeper
ProtectRoster ==
    {Roster({Offer("Doctor", "Bob")},
            {Offer("Jailkeeper", "Eve")},
            {Offer("Mafia Factional Kill", "Bob"),
             Offer("Roleblocker", "Alice")})}

InitProtect == InitWith(ProtectRoster, Cap(MaxVisits, MaxCalls, MaxDay))

SpecProtect == InitProtect /\ [][Next]_vars

----------------------------------------------------------------------------
(* Properties of the resolution engine. *)

\* the visits of game.visits, by position
Visits == 1..Len(game.visits)

\* C1: visit status is monotonic: a status that has left PENDING is changed
\* by no later step, in the same resolve_game call or in a later one
C1_StatusMonotonic ==
    [][\A i \in Visits :
          game.visits[i].status # PENDING
              => game'.visits[i].status = game.visits[i].status]_vars

\* number of visits of g that are active (current phase and day, PENDING)
PendingActive(g) ==
    Cardinality({i \in 1..Len(g.visits) : IsActive(g, g.visits[i])})

\* a step that ends one iteration of the loop of resolve_game and starts
\* the next one
NextIteration == pc = "pass" /\ lastStep' \in {"loop", "cycles"}

\* C2 (as stated): every iteration of the outer loop that is followed by
\* another one lowers the number of PENDING active visits
C2_IterationLowersPending ==
    [][NextIteration
          => PendingActive(game') < PendingActive(passStart)]_vars

\* C2 (amended): every iteration that is followed by another one leaves
\* terminal a visit that was active when the iteration began, and a
\* resolve_game call that runs comes to its end (return or fatal error)
C2_IterationResolvesVisit ==
    /\ [][NextIteration
            => \E i \in 1..Len(passStart.visits) :
                  /\ IsActive(passStart, passStart.visits[i])
                  /\ game'.visits[i].status # PENDING]_vars
    /\ (pc = "pass") ~> (pc = "idle")

\* C2 witness: the loop went into a further iteration after a Hider visit
\* had queued its two visits
C2_Witness ==
    /\ lastStep = "loop"
    /\ Len(game.visits) > Len(start.visits)

\* visit j, while it is active, makes resolve_visit or the perform of
\* visit i wait
Suspends(g, i, j) ==
    LET v == g.visits[i]
        w == g.visits[j]
        shared == Range(v.targets) \cap Range(w.targets)
    IN /\ IsActive(g, w)
       /\ \/ "commute" \in w.tags /\ shared # {}
          \/ /\ "unstoppable" \notin v.tags
             /\ \/ /\ v.ability_type # AT_PASSIVE
                   /\ "roleblock" \in w.tags
                   /\ v.actor \in Range(w.targets)
                \/ /\ v.ability_type # AT_PASSIVE
                   /\ "rolestop" \in w.tags
                   /\ shared # {}
                \/ /\ "roleblock" \in v.tags
                   /\ "juggernaut" \in w.tags
                   /\ shared # {}
                \/ /\ "kill" \in v.tags
                   /\ "protect" \in w.tags
                   /\ shared # {}

\* C3: resolve_game raises its fatal error only on a true deadlock: some
\* active visit waits for a different visit that is still pending
C3_RaisesOnlyOnDeadlock ==
    lastStep = "raise"
        => \E i, j \in Visits :
              /\ i # j
              /\ IsActive(game, game.visits[i])
              /\ Suspends(game, i, j)

\* C4: when resolve_game returns normally, no visit of the current phase
\* and day is left PENDING, the visits created during the call included
C4_ReturnLeavesNoPending ==
    lastStep = "return"
        => \A i \in Visits : ~IsActive(game, game.visits[i])

----------------------------------------------------------------------------
(* Roleblock cycles, defined by reachability.                              *)

\* the visits of g that are active and tagged roleblock
ActiveRoleblocks(g) ==
    {i \in 1..Len(g.visits) :
        IsActive(g, g.visits[i]) /\ "roleblock" \in g.visits[i].tags}

\* the edges actor -> target of the active roleblock-tagged visits of g
BlockEdges(g) ==
    UNION {{<<g.visits[i].actor, t>> : t \in Range(g.visits[i].targets)} :
              i \in ActiveRoleblocks(g)}

RECURSIVE Paths(_)
\* the pairs <<p, q>> with a path of one or more edges from p to q
Paths(E) ==
    LET more == E \cup {<<x[1][1], x[2][2]>> :
                           x \in {y \in E \X E : y[1][2] = y[2][1]}}
    IN IF more = E THEN E ELSE Paths(more)

\* the players on a cycle of roleblocks of g
OnCycle(g) == {p \in Players : <<p, p>> \in Paths(BlockEdges(g))}

\* the visits of ActiveRoleblocks(g) that lie on a cycle
CycleRoleblocks(g) ==
    {i \in ActiveRoleblocks(g) :
        \E t \in Range(g.visits[i].targets) :
            <<t, g.visits[i].actor>> \in Paths(BlockEdges(g))}

\* the step of attempt_resolve after a pass that resolved nothing
StuckStep ==
    /\ pc = "pass"
    /\ failed_to_resolve /\ ~successfully_resolved
    /\ lastStep' \in {"cycles", "raise"}

\* C5 (as stated): when the roleblock visits that are active as a call
\* begins form a cycle, the call returns normally and every roleblock visit
\* on the cycle ends FAILURE
C5_CycleEndsAllFailure ==
    (pc = "idle" /\ lastStep \in {"return", "raise"}
        /\ CycleRoleblocks(start) # {})
        => /\ outcome = "returned"
           /\ \A i \in CycleRoleblocks(start) :
                 game.visits[i].status = FAILURE

\* C5 (amended): a roleblock cycle does not deadlock.  A call in which the
\* roleblock visits of a cycle are the only active visits returns normally
\* with every one of them FAILURE; and whenever a pass resolves nothing
\* while there is a roleblock cycle, the Catastrophic Rule sets every active
\* roleblock visit of the players on the cycle to FAILURE and the loop goes
\* on
C5_CycleBrokenWhenStuck ==
    /\ [](( /\ lastStep \in {"return", "raise"}
            /\ CycleRoleblocks(start) # {}
            /\ \A i \in 1..Len(start.visits) :
                  IsActive(start, start.visits[i])
                      => i \in CycleRoleblocks(start))
            => /\ outcome = "returned"
               /\ \A i \in CycleRoleblocks(start) :
                     game.visits[i].status = FAILURE)
    /\ [][(StuckStep /\ OnCycle(game) # {})
             => /\ lastStep' = "cycles"
                /\ pc' = "pass"
                /\ \A i \in ActiveRoleblocks(game) :
                      game.visits[i].actor \in OnCycle(game)
                          => /\ game'.visits[i].status = FAILURE
                             /\ "roleblocked" \in game'.visits[i].tags]_vars

\* C5 witness: a call has returned in which two roleblock visits whose
\* actors block each other were the only active visits; the Catastrophic
\* Rule has failed both
C5_Witness ==
    /\ lastStep = "return"
    /\ outcome = "returned"
    /\ CycleRoleblocks(start) # {}
    /\ \A i \in 1..Len(start.visits) :
          IsActive(start, start.visits[i]) => i \in CycleRoleblocks(start)
    /\ \E i, j \in CycleRoleblocks(start) :
          /\ game.visits[i].targets = <<game.visits[j].actor>>
          /\ game.visits[j].targets = <<game.visits[i].actor>>
          /\ \A k \in {i, j} :
                /\ "roleblocked" \in game.visits[k].tags
                /\ game.visits[k].status = FAILURE

\* a step of cycle-breaking changes no visit whose actor is on no cycle
CycleBreakingFrame ==
    [][lastStep' = "cycles"
          => \A i \in Visits :
                game.visits[i].actor \notin OnCycle(game)
                    => game'.visits[i] = game.visits[i]]_vars

\* C6 (as stated): cycle-breaking changes no visit whose actor is on no
\* cycle, and such a visit that is pending then is performed before the
\* call returns
C6_SparedVisitIsPerformed ==
    /\ CycleBreakingFrame
    /\ [](lastStep = "return"
            => \A i \in spared :
                  game.visits[i].nperf > start.visits[i].nperf)

\* C6 (amended): cycle-breaking changes neither the status nor the tags
\* nor anything else of a visit whose actor is on no cycle
C6_CycleBreakingScope ==
    [][lastStep' = "cycles"
          => \A i \in Visits :
                game.visits[i].actor \notin OnCycle(game)
                    => /\ game'.visits[i].status = game.visits[i].status
                       /\ game'.visits[i].tags = game.visits[i].tags
                       /\ game'.visits[i] = game.visits[i]]_vars

\* C6 witness: cycle-breaking has just run and has left pending a visit of
\* a player on no cycle that targets a player on the cycle
C6_Witness ==
    /\ lastStep = "cycles"
    /\ \E i \in spared, j \in Visits :
          /\ IsActive(game, game.visits[i])
          /\ "roleblocked" \in game.visits[j].tags
          /\ game.visits[j].actor \in Range(game.visits[i].targets)

C8_NoProgressRaises ==
    [][StuckStep
          => IF game'.visits = game.visits
             THEN lastStep' = "raise" /\ outcome' = "raised" /\ pc' = "idle"
             ELSE lastStep' = "cycles" /\ pc' = "pass"]_vars

\* C8 witness: the fatal error was raised in a call whose earlier
\* cycle-breaking had changed visits and handed control back to the loop
C8_Witness ==
    /\ lastStep = "raise"
    /\ outcome = "raised"
    /\ \E i \in Visits :
          /\ "roleblocked" \in game.visits[i].tags
          /\ "roleblocked" \notin start.visits[i].tags

\* visit i is a protect visit of an action ability and visit j a kill visit
\* that is not unstoppable, on the same target in the same phase and day
ProtectMeetsKill(g, i, j) ==
    LET p == g.visits[i]
        k == g.visits[j]
    IN /\ "protect" \in p.tags
       /\ p.ability_type = AT_ACTION
       /\ "kill" \in k.tags
       /\ "unstoppable" \notin k.tags
       /\ Target(p) = Target(k)
       /\ p.phase = k.phase
       /\ p.day_no = k.day_no

\* C9 (as stated): after a normal return, of a protect visit and a kill visit
\* that is not unstoppable on the same target in the phase just resolved the
\* kill is FAILURE, the protect is SUCCESS and the target is alive
C9_ProtectBeatsKill ==
    lastStep = "return"
        => \A i, j \in Visits :
              /\ ProtectMeetsKill(game, i, j)
              /\ IsActiveTime(game, game.visits[i])
              => /\ game.visits[j].status = FAILURE
                 /\ game.visits[i].status = SUCCESS
                 /\ IsAlive(game, Target(game.visits[j]))

\* C9 (amended): when the protect visit and the kill visit are the only
\* visits active in a call that returns normally, the kill is FAILURE, the
\* protect is SUCCESS and the call adds no cause of death to the target
C9_ProtectBeatsKillAlone ==
    lastStep = "return"
        => \A i, j \in 1..Len(start.visits) :
              /\ ProtectMeetsKill(start, i, j)
              /\ \A k \in 1..Len(start.visits) :
                    IsActive(start, start.visits[k]) <=> k \in {i, j}
              => /\ game.visits[j].status = FAILURE
                 /\ game.visits[i].status = SUCCESS
                 /\ game.death_causes[Target(start.visits[j])]
                       = start.death_causes[Target(start.visits[j])]

\* C9 witness: a call has returned in which a kill visit queued before the
\* protect visit on its target was the only other active visit; the kill is
\* FAILURE, the protect SUCCESS and the target alive
C9_Witness ==
    /\ lastStep = "return"
    /\ \E i, j \in 1..Len(start.visits) :
          /\ j < i
          /\ ProtectMeetsKill(start, i, j)
          /\ \A k \in 1..Len(start.visits) :
                IsActive(start, start.visits[k]) <=> k \in {i, j}
          /\ game.visits[j].status = FAILURE
          /\ game.visits[i].status = SUCCESS
          /\ IsAlive(game, Target(game.visits[j]))

\* visit r is a roleblock visit on the actor of visit i, and visit i is
\* neither passive nor unstoppable nor immediate, in the same phase and day
RoleblockMeets(g, r, i) ==
    LET b == g.visits[r]
        v == g.visits[i]
    IN /\ "roleblock" \in b.tags
       /\ v.actor \in Range(b.targets)
       /\ v.ability_type # AT_PASSIVE
       /\ "unstoppable" \notin v.tags
       /\ ~Immediate(v.ability)
       /\ b.phase = v.phase
       /\ b.day_no = v.day_no

\* the effect of visit i is there: the target of a kill visit carries the
\* kill as a cause of death, an investigating visit was performed
EffectOccurred(g, i) ==
    LET v == g.visits[i]
    IN \/ /\ "kill" \in v.tags
          /\ \E c \in Range(g.death_causes[Target(v)]) : c = Killer(v.ability)
       \/ /\ "investigate" \in v.tags
          /\ v.nperf > 0

----------------------------------------------------------------------------
(* Investigation notices. *)

\* the players of test_investigative_fail: Alice a Roleblocker, Bob a Cop,
\* Eve of the Mafia
NoticeRoster ==
    {Roster({Offer("Roleblocker", "Bob")},
            {Offer("Cop", "Eve"), Offer("Cop", "Alice")},
            {Offer("Mafia Factional Kill", "Alice")})}

InitNotice == InitWith(NoticeRoster, Cap(MaxVisits, MaxCalls, MaxDay))

SpecNotice == InitNotice /\ [][Next]_vars

\* the failure notices in the private log of player p
FailureNotices(g, p) ==
    {k \in 1..Len(g.private_messages[p]) :
        g.private_messages[p][k].content = NoResult}

\* the investigating visits of player p in the current phase that are FAILURE
FailedInvestigations(g, p) ==
    {i \in 1..Len(g.visits) :
        /\ "investigate" \in g.visits[i].tags
        /\ g.visits[i].actor = p
        /\ IsActiveTime(g, g.visits[i])
        /\ g.visits[i].status = FAILURE}

\* C11: over the first night, whenever resolve_game has returned, a private
\* log holds exactly one failure notice for every investigating visit of
\* its owner that is FAILURE in that night, and none for a visit that is
\* SUCCESS
C11_OneNoticePerFailure ==
    (lastStep = "return" /\ game.day_no = 1 /\ Phase(game) = NIGHT)
        => \A p \in Players :
              Cardinality(FailureNotices(game, p))
                 = Cardinality(FailedInvestigations(game, p))

----------------------------------------------------------------------------
(* Abilities wrapped by XShot. *)

\* the players of test_xshot_role: Alice a 1-Shot Cop, Eve of the Mafia;
\* Bob a 2-Shot Cop
ShotRoster ==
    {Roster({Offer("1-Shot Cop", "Bob"), Offer("1-Shot Cop", "Eve")},
            {Offer("2-Shot Cop", "Eve")},
            {Offer("Mafia Factional Kill", "Bob")})}

InitShot == InitWith(ShotRoster, Cap(MaxVisits, MaxCalls, MaxDay))

SpecShot == InitShot /\ [][Next]_vars

\* C12: between calls of resolve_game the check of an ability wrapped by
\* XShot(N) is that of the unwrapped ability while the actor's logged uses
\* are fewer than N, and is false for every target once they have reached
\* N, in the phase of the uses and in every later one; so no visit of the
\* ability is queued any more
C12_BoundedUse ==
    /\ [](pc = "idle"
            => \A actor \in Players, a \in XShotAbilities :
                  \A t \in TargetTuples(a) :
                     Check(game, actor, t, a)
                        = IF game.uses[actor][a] < MaxUses(a)
                          THEN AbilityCheck(game, actor, t, Unwrapped(a))
                          ELSE FALSE)
    /\ [][lastStep' = "queue"
             => LET v == game'.visits[Len(game'.visits)]
                IN v.ability \in XShotAbilities
                      => game.uses[v.actor][v.ability] < MaxUses(v.ability)]_vars

\* C12 witness: on the second night Alice, whose one use of the 1-Shot Cop
\* was logged on the first, passes the check of the Cop for Eve and fails
\* that of the 1-Shot Cop
C12_Witness ==
    /\ pc = "idle"
    /\ game.day_no = 2
    /\ Phase(game) = NIGHT
    /\ game.uses["Alice"]["1-Shot Cop"] = 1
    /\ AbilityCheck(game, "Alice", <<"Eve">>, "Cop")
    /\ ~Check(game, "Alice", <<"Eve">>, "1-Shot Cop")

----------------------------------------------------------------------------
(* Construction of visits by a caller of the library. *)

MaxTargets == 2     \* longest target tuple a caller passes to make_visit

RECURSIVE Repeat(_, _)
\* tuple(x for _ in range(n))
Repeat(x, n) == IF n <= 0 THEN <<>> ELSE <<x>> \o Repeat(x, n - 1)

RECURSIVE TuplesUpTo(_, _)
\* the tuples of at most n elements of S
TuplesUpTo(S, n) ==
    IF n = 0 THEN {<<>>}
    ELSE LET shorter == TuplesUpTo(S, n - 1)
         IN shorter \cup {Append(t, x) : t \in shorter, x \in S}

\* Resolver.make_visit with a valid ability index: Visit(...) and its
\* __post_init__; given is FALSE when the caller passes targets=None
make_visit(g, actor, given, targets, a, tags) ==
    NewVisit(g, actor,
             IF given THEN targets ELSE Repeat(actor, TargetCount(a)),
             a, TypeOf(a), tags)

\* a caller appends the visit make_visit gives it, as the tests do
MakeVisit(actor, given, targets, a, tags) ==
    /\ pc = "idle"
    /\ Len(game.visits) < cap.visits
    /\ game' = [game EXCEPT !.visits =
                    Append(@, make_visit(game, actor, given, targets, a, tags))]
    /\ lastStep' = IF given THEN "make" ELSE "fill"
    /\ UNCHANGED <<applied, lazy_allowed, held, cap, pc, todo, failed_to_resolve,
                   successfully_resolved, outcome, calls, start, passStart,
                   resolved, spared>>

NextArity ==
    \E a \in {"Cop", "Innocent Child"} :
       \/ \E targets \in TuplesUpTo({"Bob", "Eve"}, MaxTargets) :
             MakeVisit("Alice", TRUE, targets, a, {})
       \/ MakeVisit("Alice", FALSE, <<>>, a, {})

InitArity == InitWith(CatastrophicRoster, Cap(MaxVisits, MaxCalls, MaxDay))

SpecArity == InitArity /\ [][NextArity]_vars

\* C13: every visit has as many targets as its ability's target_count
C13_TargetArity ==
    \A i \in Visits :
       Len(game.visits[i].targets) = TargetCount(game.visits[i].ability)

----------------------------------------------------------------------------
(* Iteration order of sets.  nodes_in_cycles iterates the set of nodes and *)
(* resolve_cycles the set of cyclic players; the order of a set is not     *)
(* fixed by the language.  Every other step of resolve_game is a function  *)
(* of the game and of the list game.visits.                                *)

RECURSIVE Orders(_)
\* the orders in which a set can be iterated
Orders(S) ==
    IF S = {} THEN {<<>>}
    ELSE UNION {{<<x>> \o o : o \in Orders(S \ {x})} : x \in S}

\* Resolver.resolve_cycles with the node set iterated in node_order and the
\* set of cyclic players in player_order
resolve_cycles_in(g, node_order, player_order) ==
    LET players == nodes_in_cycles(RoleblockEdges(g, 1), node_order)
    IN [g |-> RoleblockAll(g, SelectSeq(player_order,
                                        LAMBDA p : p \in players)),
        successfully_resolved |-> players # {}]

\* C14: resolve_game is deterministic: whatever the order in which the set
\* of nodes and the set of cyclic players are iterated, cycle-breaking
\* leaves the same game (statuses, tags, deaths, use counters, messages)
\* and reports the same, in every state a running call passes through
C14_OrderIndependent ==
    pc = "pass"
        => \A node_order \in Orders(EdgeNodes(RoleblockEdges(game, 1))) :
              \A player_order \in Orders(Players) :
                 resolve_cycles_in(game, node_order, player_order)
                    = resolve_cycles(game)

\* C14 witness: a pass has resolved nothing and two players or more are on
\* a roleblock cycle
C14_Witness ==
    /\ pc = "pass"
    /\ SkipInactive(game, todo) = <<>>
    /\ failed_to_resolve /\ ~successfully_resolved
    /\ Cardinality(OnCycle(game)) >= 2
    /\ Cardinality(EdgeNodes(RoleblockEdges(game, 1))) = 3

----------------------------------------------------------------------------
(* nodes_in_cycles as a function of its own: edge lists over three nodes   *)
(* and the examples of the module's __main__ block, each with every order  *)
(* in which the set of nodes can be iterated.                              *)

MaxEdges == 3

GraphNodes == {1, 2, 3}

\* the edge lists of the __main__ block
MainExamples ==
    {<<<<1, 2>>, <<2, 3>>, <<3, 1>>, <<3, 4>>, <<5, 5>>, <<6, 7>>>>,
     <<<<1, 2>>, <<2, 3>>, <<3, 4>>, <<4, 2>>>>,
     <<<<1, 2>>, <<2, 3>>, <<3, 1>>, <<4, 5>>>>,
     <<<<1, 1>>, <<2, 2>>, <<3, 3>>>>,
     <<<<1, 2>>, <<2, 1>>>>,
     <<<<1, 2>>, <<2, 3>>, <<3, 4>>>>}

\* a call nodes_in_cycles(edges); the list is read and never written
NodesInCycles(edges, order) ==
    /\ applied' = [edges |-> edges, order |-> order,
                   result |-> nodes_in_cycles(edges, order)]
    /\ UNCHANGED <<game, lazy_allowed, held, cap, pc, todo, failed_to_resolve,
                   successfully_resolved, outcome, calls, start, passStart,
                   resolved, spared, lastStep>>

NextCycles ==
    \/ /\ applied = NoCall
       /\ \E edges \in MainExamples :
             \E order \in Orders(EdgeNodes(edges)) :
                NodesInCycles(edges, order)
    \/ /\ Len(applied.edges) < MaxEdges
       /\ \E u, v \in GraphNodes :
             LET edges == Append(applied.edges, <<u, v>>)
             IN \E order \in Orders(EdgeNodes(edges)) :
                   NodesInCycles(edges, order)

SpecCycles ==
    InitWith(CatastrophicRoster, Cap(MaxVisits, MaxCalls, MaxDay))
        /\ [][NextCycles]_vars

RECURSIVE Reverse(_)
Reverse(s) == IF s = <<>> THEN <<>> ELSE Append(Reverse(Tail(s)), Head(s))

\* the nodes from which a non-empty path of edges leads back to themselves
NodesOnCycle(E) == {n \in {e[1] : e \in E} : <<n, n>> \in Paths(E)}

\* C15: nodes_in_cycles returns exactly the nodes that lie on a directed
\* cycle (a non-empty path from the node to itself), whatever the order and
\* the repetition of the edges and the order of the node set
C15_ExactlyCycleNodes ==
    LET edges == applied.edges
        order == applied.order
    IN /\ applied.result = NodesOnCycle(Range(edges))
       /\ nodes_in_cycles(Reverse(edges), order) = applied.result
       /\ nodes_in_cycles(edges \o Reverse(edges), order) = applied.result

\* C15 witness: the first example of __main__, with a component of three
\* nodes, a self-loop and nodes on no cycle
C15_Witness ==
    /\ Len(applied.edges) = 6
    /\ EdgeNodes(applied.edges) = 1..7
    /\ applied.result = {1, 2, 3, 5}

----------------------------------------------------------------------------
(* The order of a pass.  make_visit lets its caller give a visit tags of   *)
(* its own; no ability of the module carries the tag "simultaneous".       *)

TagChoices == {{}, {"simultaneous"}}

\* a Juggernaut with the factional kill, a Vigilante and a Doctor
OrderRoster ==
    {Roster({Offer("Vigilante", "Bob")},
            {Offer("Doctor", "Alice")},
            {Offer("Juggernaut", "Eve"),
             Offer("Mafia Factional Kill", "Alice")})}

NextOrder ==
    \/ \E actor \in Players :
          \E offer \in held[actor] :
             \E tags \in TagChoices :
                MakeVisit(actor, TRUE, offer[2], offer[1], tags)
    \/ ResolveGame
    \/ ResolveVisit
    \/ AttemptResolveEnd
    \/ AdvancePhase

SpecOrder ==
    InitWith(OrderRoster, Cap(MaxVisits, MaxCalls, MaxDay))
        /\ [][NextOrder]_vars

\* the three priorities the claim names: simultaneous, unstoppable, neither
PriorityClass(tags) ==
    IF "simultaneous" \in tags THEN 0
    ELSE IF "unstoppable" \in tags THEN 1 ELSE 2

\* the key of the sort, as a number: (simultaneous, unstoppable), reverse
SortKey(tags) ==
    (IF "simultaneous" \in tags THEN 0 ELSE 2)
        + (IF "unstoppable" \in tags THEN 0 ELSE 1)

\* C16 (as stated): within a pass the visits are resolved by priority, the
\* simultaneous-tagged ones before the rest and the unstoppable-tagged ones
\* before the untagged ones, each visit taken with the tags it carries when
\* it is resolved; visits of equal priority follow the order of game.visits
C16_PriorityOrder ==
    \A a, b \in 1..Len(resolved) :
        a < b =>
            /\ PriorityClass(resolved[a].tags) <= PriorityClass(resolved[b].tags)
            /\ PriorityClass(resolved[a].tags) = PriorityClass(resolved[b].tags)
                  => resolved[a].visit < resolved[b].visit

\* C16 (amended): within a pass the visits are resolved in the order of the
\* key (simultaneous, unstoppable) of the tags they carry when the pass
\* begins, simultaneous and unstoppable first, then simultaneous only, then
\* unstoppable only, then the rest; visits of equal key follow the order of
\* game.visits, and the pass resolves no visit appended after it began
C16_SnapshotOrder ==
    /\ \A a \in 1..Len(resolved) : resolved[a].visit <= Len(passStart.visits)
    /\ \A a, b \in 1..Len(resolved) :
          a < b =>
             LET ka == SortKey(passStart.visits[resolved[a].visit].tags)
                 kb == SortKey(passStart.visits[resolved[b].visit].tags)
             IN /\ ka <= kb
                /\ ka = kb => resolved[a].visit < resolved[b].visit

\* C16 witness: a pass has resolved a simultaneous visit, then an
\* unstoppable one, then an untagged one that is the first of game.visits
C16_Witness ==
    /\ Len(resolved) = 3
    /\ "simultaneous" \in resolved[1].tags
    /\ "unstoppable" \in resolved[2].tags
    /\ resolved[2].tags \cap {"simultaneous"} = {}
    /\ resolved[3].tags \cap {"simultaneous", "unstoppable"} = {}
    /\ resolved[3].visit = 1

----------------------------------------------------------------------------
(* Unstoppable visits next to roleblocks, rolestops and protection, with   *)
(* the lazy flag of the resolver set by its caller.                        *)

\* Resolver.check_lazy_allowed
check_lazy_allowed(g) ==
    Cardinality({p \in Players : "town" \notin AlignmentTags(g, p)}) > 1

\* a caller runs check_lazy_allowed between two calls of resolve_game
CheckLazyAllowed ==
    /\ pc = "idle"
    /\ lazy_allowed' = check_lazy_allowed(game)
    /\ lastStep' = "lazy"
    /\ UNCHANGED <<applied, game, held, cap, pc, todo, failed_to_resolve,
                   successfully_resolved, outcome, calls, start, passStart,
                   resolved, spared>>

\* a Juggernaut with the factional kill, a Roleblocker, and a player who
\* is Doctor and holds a Rolestop
UnstoppableRoster ==
    {Roster({Offer("Roleblocker", "Eve")},
            {Offer("Doctor", "Alice"), Offer("Rolestop", "Alice")},
            {Offer("Juggernaut", "Eve"),
             Offer("Mafia Factional Kill", "Alice")})}

\* the Juggernaut is held plain and with the Lazy modifier
LazyChoices(a) == IF a = "Juggernaut" THEN {{}, {"lazy"}} ELSE {{}}

NextUnstoppable ==
    \/ \E actor \in Players :
          \E offer \in held[actor] :
             \E tags \in LazyChoices(offer[1]) :
                MakeVisit(actor, TRUE, offer[2], offer[1], tags)
    \/ CheckLazyAllowed
    \/ ResolveGame
    \/ ResolveVisit
    \/ AttemptResolveEnd
    \/ AdvancePhase

SpecUnstoppable ==
    InitWith(UnstoppableRoster, Cap(MaxVisits + 1, MaxCalls - 1, MaxDay))
        /\ [][NextUnstoppable]_vars

\* the visit the next iteration of the pass resolves
Reached == Head(SkipInactive(game, todo))

\* no step but the resolution of the visit itself sets an unstoppable
\* pending visit to FAILURE
UnstoppableNeverFailed ==
    \A i \in 1..Len(game.visits) :
        (/\ "unstoppable" \in game.visits[i].tags
         /\ game.visits[i].status = PENDING
         /\ game'.visits[i].status = FAILURE)
            => /\ pc = "pass" /\ lastStep' = "visit"
               /\ Reached = i

\* C17 (as stated): an unstoppable visit whose targets have no active
\* commute visitor is performed when the pass reaches it, and no other
\* visit and no cycle-breaking sets an unstoppable visit to FAILURE
C17_UnstoppablePerformed ==
    [][/\ (/\ pc = "pass" /\ lastStep' = "visit"
           /\ "unstoppable" \in game.visits[Reached].tags
           /\ ~TargetHasActive(game, game.visits[Reached], "commute"))
          => game'.visits[Reached].nperf = game.visits[Reached].nperf + 1
       /\ UnstoppableNeverFailed]_vars

\* C17 (amended): the same, for a visit that is not lazy-tagged or is
\* resolved while lazy abilities are allowed; a lazy-tagged unstoppable
\* visit resolved while they are not allowed ends FAILURE unperformed
C17_UnstoppableUnlessLazy ==
    [][/\ (/\ pc = "pass" /\ lastStep' = "visit"
           /\ "unstoppable" \in game.visits[Reached].tags
           /\ ~TargetHasActive(game, game.visits[Reached], "commute"))
          => IF "lazy" \in game.visits[Reached].tags /\ ~lazy_allowed
             THEN /\ game'.visits[Reached].nperf = game.visits[Reached].nperf
                  /\ game'.visits[Reached].status = FAILURE
             ELSE game'.visits[Reached].nperf
                     = game.visits[Reached].nperf + 1
       /\ UnstoppableNeverFailed]_vars

\* C17 witness: a factional kill made unstoppable has been performed and
\* has killed while a roleblock on its actor and a protection of its
\* target were active
C17_Witness ==
    /\ pc = "pass" /\ lastStep = "visit"
    /\ \E i, j, k \in 1..Len(game.visits) :
          /\ resolved[Len(resolved)].visit = i
          /\ {"unstoppable", "kill"} \subseteq game.visits[i].tags
          /\ game.visits[i].status = SUCCESS
          /\ "roleblock" \in game.visits[j].tags
          /\ game.visits[i].actor \in Range(game.visits[j].targets)
          /\ IsActive(game, game.visits[j])
          /\ "protect" \in game.visits[k].tags
          /\ game.visits[k].targets = game.visits[i].targets
          /\ IsActive(game, game.visits[k])

----------------------------------------------------------------------------
\* player uses the Juggernaut on themself in g, lazily only if allowed
UsesJuggernaut(g, player) ==
    \E j \in 1..Len(g.visits) :
        /\ IsActive(g, g.visits[j])
        /\ g.visits[j].ability = "Juggernaut"
        /\ g.visits[j].actor = player
        /\ g.visits[j].targets = <<player>>
        /\ "lazy" \in g.visits[j].tags => lazy_allowed

----------------------------------------------------------------------------
(* The lazy flag in games of one to three Mafia players: a Vigilante who   *)
(* can shoot a player of the Mafia, and a Mafia Juggernaut, plain or Lazy. *)

LazyGames ==
    {NewGameOf(alignment) :
        alignment \in {al \in [Players -> {"Town", "Mafia"}] :
                          al["Eve"] = "Mafia"}}

LazyRoster ==
    {Roster({Offer("Vigilante", "Bob")},
            {},
            {Offer("Juggernaut", "Eve"),
             Offer("Mafia Factional Kill", "Alice")})}

SpecLazy ==
    InitGames(LazyRoster, Cap(MaxVisits, MaxCalls, MaxDay), LazyGames)
        /\ [][NextUnstoppable]_vars

\* the living players whose alignment has no town tag
LivingNonTown(g) ==
    {p \in Players : IsAlive(g, p) /\ "town" \notin AlignmentTags(g, p)}

\* C19: check_lazy_allowed sets the flag exactly when more than one living
\* player has an alignment without the town tag; while the flag is false a
\* lazy-tagged visit that is resolved ends FAILURE without being performed
C19_LazyCountsLiving ==
    /\ [](lastStep = "lazy"
            => lazy_allowed = (Cardinality(LivingNonTown(game)) > 1))
    /\ [][(/\ pc = "pass" /\ lastStep' = "visit"
           /\ "lazy" \in game.visits[Reached].tags
           /\ ~lazy_allowed)
          => /\ game'.visits[Reached].status = FAILURE
             /\ game'.visits[Reached].nperf = game.visits[Reached].nperf]_vars

----------------------------------------------------------------------------
(* Voting: the ledger game.votes, the majority test of the resolver and    *)
(* the vote requests of the API, which let every player of the game vote   *)
(* for a living player or for no elimination during a voting phase.        *)

\* Game.voting_phases
voting_phases == {DAY}

\* Game.is_voting_phase
is_voting_phase(g) == Phase(g) \in voting_phases

\* Game.get_votes
get_votes(g, target) == Cardinality({p \in Players : g.votes[p] = target})

\* Game.alive_players
alive_players(g) == {p \in Players : IsAlive(g, p)}

\* Resolver.vote_elimination: the candidates with votes above half of the
\* number of living players; the code returns the first in game.players
Eliminated(g) ==
    IF ~is_voting_phase(g) THEN {}
    ELSE {p \in Players :
             2 * get_votes(g, p) > Cardinality(alive_players(g))}

\* Resolver.vote_ongoing
vote_ongoing(g) ==
    /\ is_voting_phase(g)
    /\ Eliminated(g) = {}
    /\ 2 * get_votes(g, NoElimination) < Cardinality(alive_players(g))

\* POST .../vote: Game.vote
Vote(player, target) ==
    /\ pc = "idle"
    /\ is_voting_phase(game)
    /\ target = NoElimination \/ target \in alive_players(game)
    /\ game.votes[player] # target
    /\ game' = [game EXCEPT !.votes[player] = target]
    /\ lastStep' = "vote"
    /\ UNCHANGED <<applied, lazy_allowed, held, cap, pc, todo, failed_to_resolve,
                   successfully_resolved, outcome, calls, start, passStart,
                   resolved, spared>>

\* DELETE .../vote: Game.unvote
Unvote(player) ==
    /\ pc = "idle"
    /\ is_voting_phase(game)
    /\ game.votes[player] # NotVoted
    /\ game' = [game EXCEPT !.votes[player] = NotVoted]
    /\ lastStep' = "unvote"
    /\ UNCHANGED <<applied, lazy_allowed, held, cap, pc, todo, failed_to_resolve,
                   successfully_resolved, outcome, calls, start, passStart,
                   resolved, spared>>

\* Resolver.resolve_vote: None and no change outside a voting phase and
\* while the vote is ongoing; otherwise the first player of game.players
\* that vote_elimination finds is killed and the phase advanced
ResolveVote ==
    /\ pc = "idle"
    /\ IF ~is_voting_phase(game) \/ vote_ongoing(game)
       THEN /\ game' = game
            /\ lastStep' = "declined"
       ELSE /\ game.phase_idx + 1 > Len(game.phase_order)
                  => game.day_no < cap.day
            /\ LET elim == PlayersInOrder(Eliminated(game))
               IN game' = advance_phase(
                             IF elim = <<>> THEN game
                             ELSE KillPlayer(game, Head(elim), "Vote"))
            /\ lastStep' = "elect"
    /\ UNCHANGED <<applied, lazy_allowed, held, cap, pc, todo, failed_to_resolve,
                   successfully_resolved, outcome, calls, start, passStart,
                   resolved, spared>>

\* the factional kill by night, votes by day; one visit and one call
VoteRoster ==
    {Roster({}, {}, {Offer("Mafia Factional Kill", "Alice"),
                     Offer("Mafia Factional Kill", "Bob")})}

NextVote ==
    \/ \E actor \in Players :
          \E offer \in held[actor] : QueueVisit(actor, offer[1], offer[2])
    \/ ResolveGame
    \/ ResolveVisit
    \/ AttemptResolveEnd
    \/ AdvancePhase
    \/ \E player \in Players :
          \E target \in Players \cup {NoElimination} : Vote(player, target)
    \/ \E player \in Players : Unvote(player)
    \/ ResolveVote

SpecVote ==
    InitWith(VoteRoster, Cap(MaxVisits - 2, MaxCalls - 1, MaxDay))
        /\ [][NextVote]_vars

\* the living players who vote for target
LivingVoters(g, target) ==
    {p \in alive_players(g) : g.votes[p] = target}

\* C20: vote_ongoing is true exactly when the phase is a voting phase, no
\* candidate has the votes of more than half of the living players, and
\* the votes for no elimination are fewer than half of the living players
C20_VoteOngoing ==
    vote_ongoing(game)
        = /\ is_voting_phase(game)
          /\ \A c \in Players :
                2 * Cardinality(LivingVoters(game, c))
                    <= Cardinality(alive_players(game))
          /\ 2 * get_votes(game, NoElimination)
                < Cardinality(alive_players(game))

----------------------------------------------------------------------------
\* the candidates for whom more than half of the living players vote
MajorityCandidates(g) ==
    {c \in Players :
        2 * Cardinality(LivingVoters(g, c)) > Cardinality(alive_players(g))}

\* the vote of a voting phase is over: a candidate has the majority of the
\* living players, or the votes for no elimination reach half of them
VoteOver(g) ==
    /\ is_voting_phase(g)
    /\ \/ MajorityCandidates(g) # {}
       \/ 2 * get_votes(g, NoElimination) >= Cardinality(alive_players(g))

\* C21: resolve_vote in a voting phase whose vote is over kills the
\* majority candidate, if there is one, with the single cause "Vote",
\* moves to the next phase and empties the ledger; in a non-voting phase
\* and while the vote is ongoing it changes no state
C21_ResolveVote ==
    [][lastStep' \in {"elect", "declined"}
        => IF VoteOver(game)
           THEN /\ \A p \in Players :
                      game'.death_causes[p]
                         = IF p \in MajorityCandidates(game)
                           THEN Append(game.death_causes[p], "Vote")
                           ELSE game.death_causes[p]
                /\ game'.phase_idx = game.phase_idx + 1
                /\ game'.day_no = game.day_no
                /\ \A p \in Players : game'.votes[p] = NotVoted
           ELSE game' = game]_vars

\* C22: the vote is a majority tally over living players: resolve_vote
\* eliminates a player only if more than half of the living players hold a
\* vote for that player, votes of dead players not counted, and in no
\* ledger state does vote_elimination have more than one player to choose
C22_LivingMajority ==
    /\ [][lastStep' = "elect"
            => \A p \in Players :
                  game'.death_causes[p] # game.death_causes[p]
                     => p \in MajorityCandidates(game)]_vars
    /\ [](Cardinality(Eliminated(game)) <= 1)

----------------------------------------------------------------------------
(* Phases: games whose phase_order has one, two or three entries, started  *)
(* in the first phase, with votes cast and phases advanced.                *)

PhaseGames ==
    {[NewGame EXCEPT !.phase_order = order, !.phase_idx = 1] :
        order \in {<<DAY>>, <<DAY, NIGHT>>, <<DAY, NIGHT, "twilight">>}}

NextPhase ==
    \/ AdvancePhase
    \/ \E player \in Players :
          \E target \in Players \cup {NoElimination} : Vote(player, target)
    \/ \E player \in Players : Unvote(player)
    \/ ResolveVote

SpecPhase ==
    InitGames(VoteRoster, Cap(MaxVisits, MaxCalls, MaxDay), PhaseGames)
        /\ [][NextPhase]_vars

\* C23: advance_phase moves to the next entry of phase_order, from the
\* last entry to the first with day_no one higher, and leaves the ledger
\* empty; the phase index stays within phase_order and day_no never falls
C23_AdvancePhase ==
    /\ [][lastStep' = "advance"
            => /\ IF game.phase_idx = Len(game.phase_order)
                  THEN /\ game'.phase_idx = 1
                       /\ game'.day_no = game.day_no + 1
                  ELSE /\ game'.phase_idx = game.phase_idx + 1
                       /\ game'.day_no = game.day_no
               /\ \A p \in Players : game'.votes[p] = NotVoted
               /\ game'.phase_order = game.phase_order]_vars
    /\ [](game.phase_idx \in 1..Len(game.phase_order))
    /\ [][game'.day_no >= game.day_no]_vars

\* C23 witness: advance_phase has wrapped a game of three phases into the
\* first phase of day 2
C23_Witness ==
    /\ lastStep = "advance"
    /\ Len(game.phase_order) = 3
    /\ game.phase_idx = 1
    /\ game.day_no = 2
    /\ \A p \in Players : game.votes[p] = NotVoted

----------------------------------------------------------------------------
\* is sequence s a prefix of sequence t?
IsPrefix(s, t) == Len(s) <= Len(t) /\ SubSeq(t, 1, Len(s)) = s

\* C24: death is permanent: on every step each player's death-cause list
\* keeps its entries and at most gains new ones at its end, so a dead
\* player stays dead
C24_DeathPermanent ==
    [][\A p \in Players :
          IsPrefix(game.death_causes[p], game'.death_causes[p])]_vars

\* C24 witness: a player killed at night is still dead, with the same
\* cause, after a vote of the next day has eliminated another player
C24_Witness ==
    /\ lastStep = "elect"
    /\ \E p, q \in Players :
          /\ game.death_causes[p] = <<"MafiaFactionalKill">>
          /\ game.death_causes[q] = <<"Vote">>

----------------------------------------------------------------------------
(* The frame of resolve_game: games of one and two Mafia players, an       *)
(* Innocent Child who reveals by day, the factional kill by night, votes   *)
(* cast to eliminate Eve or no one, and the caller's lazy check.           *)

FrameGames ==
    {NewGameOf(alignment) :
        alignment \in {al \in [Players -> {"Town", "Mafia"}] :
                          al["Eve"] = "Mafia" /\ al["Alice"] = "Town"}}

FrameRoster ==
    {Roster({<<"Innocent Child", <<>>>>}, {},
            {Offer("Mafia Factional Kill", "Alice")})}

NextFrame ==
    \/ \E actor \in Players :
          \E offer \in held[actor] :
             QueueVisit(actor, offer[1], offer[2])
    \/ CheckLazyAllowed
    \/ ResolveGame
    \/ ResolveVisit
    \/ AttemptResolveEnd
    \/ AdvancePhase
    \/ \E player \in Players :
          \E target \in {"Eve", NoElimination} : Vote(player, target)

SpecFrame ==
    InitGames(FrameRoster, Cap(MaxVisits - 1, MaxCalls, MaxDay), FrameGames)
        /\ [][NextFrame]_vars

\* the steps of one call of resolve_game
ResolveGameSteps == {"begin", "visit", "loop", "cycles", "raise", "return"}

\* C25: no step of resolve_game changes the game's phase, its day number,
\* its vote ledger, its roster of players, any player's known_players set
\* or the resolver's lazy_allowed flag; the known_players sets stay as
\* add_player left them on every other step too
C25_ResolveGameFrame ==
    /\ [][game'.known_players = game.known_players]_vars
    /\ [][lastStep' \in ResolveGameSteps
          => /\ game'.phase_order = game.phase_order
             /\ game'.phase_idx = game.phase_idx
             /\ game'.day_no = game.day_no
             /\ game'.votes = game.votes
             /\ DOMAIN game'.death_causes = DOMAIN game.death_causes
             /\ game'.alignment = game.alignment
             /\ lazy_allowed' = lazy_allowed]_vars

\* C25 witness: a call of resolve_game by day returns with votes in the
\* ledger, a Mafia player who knows a partner, and a reveal written to
\* the chat
C25_Witness ==
    /\ lastStep = "return"
    /\ Phase(game) = DAY
    /\ game.chats # start.chats
    /\ \E p \in Players : game.votes[p] = "Eve"
    /\ game.known_players["Eve"] # {}
    /\ game.votes = start.votes

----------------------------------------------------------------------------
(* The queue of the API: requests are queued, replaced and withdrawn in    *)
(* game.queued_visits, and the patch actions dequeue and resolve move the  *)
(* queue into game.visits.                                                  *)

\* requested_visit None of queue_visit
NoRequest == <<"no request">>

RECURSIVE FirstQueued(_, _, _, _)
\* prev_visit of queue_visit: the index of the first queued visit, from k
\* on, of the ability by a player of the player's alignment; 0 for None
FirstQueued(g, player, a, k) ==
    IF k > Len(g.queued_visits) THEN 0
    ELSE LET v == g.queued_visits[k]
         IN IF v.ability = a /\ g.alignment[v.actor] = g.alignment[player]
            THEN k
            ELSE FirstQueued(g, player, a, k + 1)

\* list.remove of the element at index k
RemoveAt(s, k) == SubSeq(s, 1, k - 1) \o SubSeq(s, k + 1, Len(s))

\* queue_visit of the API
queue_visit(g, player, a, atype, requested_visit) ==
    LET prev == FirstQueued(g, player, a, 1)
        left == IF prev = 0 THEN g.queued_visits
                ELSE RemoveAt(g.queued_visits, prev)
    IN [g EXCEPT !.queued_visits =
           IF requested_visit = NoRequest THEN left
           ELSE Append(left, NewVisit(g, player, requested_visit, a, atype, {}))]

\* game_player_queue_ability with one entry: validate_action, queue_visit
GamePlayerQueueAbility(player, a, requested_visit) ==
    /\ pc = "idle"
    /\ \E offer \in held[player] : offer[1] = a
    /\ requested_visit # NoRequest
          => /\ <<a, requested_visit>> \in held[player]
             /\ Check(game, player, requested_visit, a)
             /\ Len(game.visits) + Len(game.queued_visits) < cap.visits
    /\ game' = queue_visit(game, player, a, TypeOf(a), requested_visit)
    /\ lastStep' = IF requested_visit = NoRequest THEN "withdraw" ELSE "request"
    /\ UNCHANGED <<applied, lazy_allowed, held, cap, pc, todo, failed_to_resolve,
                   successfully_resolved, outcome, calls, start, passStart,
                   resolved, spared>>

\* a dequeue that drops the queued visits
dequeue_dropping(g) == [g EXCEPT !.queued_visits = <<>>]

\* the first lines of the patch actions dequeue and resolve
dequeue_visits(g) ==
    [g EXCEPT !.visits = @ \o SelectSeq(g.queued_visits,
                                        LAMBDA v : IsActiveTime(g, v)),
              !.queued_visits = <<>>]

\* handle_patch_action, DEQUEUE
PatchDequeue ==
    /\ pc = "idle"
    /\ game' = dequeue_visits(game)
    /\ lastStep' = "dequeue"
    /\ UNCHANGED <<applied, lazy_allowed, held, cap, pc, todo, failed_to_resolve,
                   successfully_resolved, outcome, calls, start, passStart,
                   resolved, spared>>

\* handle_patch_action, RESOLVE, up to the first pass of resolve_game
PatchResolve == ResolveGameOf(dequeue_visits(game))

\* handle_patch_action, NEXT_PHASE: advance_phase of the API's Game
PatchAdvancePhase ==
    /\ pc = "idle"
    /\ game.phase_idx + 1 > Len(game.phase_order) => game.day_no < cap.day
    /\ game' = [advance_phase(game) EXCEPT !.queued_visits = <<>>]
    /\ lastStep' = "advance"
    /\ UNCHANGED <<applied, lazy_allowed, held, cap, pc, todo, failed_to_resolve,
                   successfully_resolved, outcome, calls, start, passStart,
                   resolved, spared>>

\* two Town Doctors, who share the ability Doctor, and the factional kill
QueueRoster ==
    {Roster({Offer("Doctor", "Bob")}, {Offer("Doctor", "Alice")},
            {Offer("Mafia Factional Kill", "Alice")})}

NextQueue ==
    \/ \E player \in Players :
          \E offer \in held[player] :
             \E requested_visit \in {offer[2], NoRequest} :
                GamePlayerQueueAbility(player, offer[1], requested_visit)
    \/ PatchDequeue
    \/ PatchResolve
    \/ ResolveVisit
    \/ AttemptResolveEnd
    \/ PatchAdvancePhase

SpecQueue ==
    InitWith(QueueRoster, Cap(MaxVisits, MaxCalls, MaxDay))
        /\ [][NextQueue]_vars

\* is visit v an element of the list s?
InList(v, s) == \E k \in 1..Len(s) : s[k] = v

----------------------------------------------------------------------------
\* C27: in every state the status of every visit of the game is PENDING,
\* FAILURE or SUCCESS
C27_StatusRange ==
    \A k \in 1..Len(game.visits) :
       game.visits[k].status \in {PENDING, FAILURE, SUCCESS}

\* a Bulletproof player shot by the Vigilante and by the Mafia
StatusRoster ==
    {Roster({Offer("Bulletproof", "Alice")},
            {Offer("Vigilante", "Alice")},
            {Offer("Mafia Factional Kill", "Alice")})}

SpecStatus ==
    InitWith(StatusRoster, Cap(MaxVisits, MaxCalls, MaxDay)) /\ [][Next]_vars

----------------------------------------------------------------------------
(* Stacks of check-restricting modifiers: Alice holds the Cop under one    *)
(* stack, uses it on Bob and on Eve over two nights, and the check of the  *)
(* modified class is compared with the checks it is composed of.           *)

ModifierRoster ==
    {Roster({Offer(a, "Bob"), Offer(a, "Eve")}, {}, {}) :
        a \in ModifiedAbilities}

SpecModifier ==
    InitWith(ModifierRoster, Cap(MaxVisits, MaxCalls, MaxDay))
        /\ [][Next]_vars

\* the constraint of one modifier of the stack of ability a, for a check
\* with the given targets (<<>>: None)
ModifierAllows(g, actor, targets, a, m) ==
    CASE m \in {"X1", "X2"} -> g.uses[actor][a] < Shots(m)
      [] m = "N1" -> g.day_no \in Nights
      [] m = "I" ->
            \A k \in RecentUses(g, actor, a) :
               targets = <<>>
                  \/ Head(targets) # Head(g.action_history[actor][k].targets)
      [] m = "NC" -> RecentUses(g, actor, a) = {}

\* the check the composition of the stack of ability a stands for
ComposedCheck(g, actor, targets, a) ==
    /\ AbilityCheck(g, actor, targets, Unwrapped(a))
    /\ \A k \in 1..Len(ModifierStacks[a]) :
          ModifierAllows(g, actor, targets, a, ModifierStacks[a][k])

\* the arguments a caller checks with: a target, or None
CheckedTargets == {<<>>} \cup {<<t>> : t \in Players}

\* C28: the check of a Cop modified by a stack of XShot, NightX, Indecisive
\* and NonConsecutiveNight is true exactly when the check of the Cop is
\* true for the same arguments and the constraint of every modifier of the
\* stack holds, and its tags are the tags of the Cop joined with the tags
\* of the modifiers
C28_CheckComposes ==
    \A actor \in Players, a \in ModifiedAbilities :
       (\E offer \in held[actor] : offer[1] = a)
          => /\ \A targets \in CheckedTargets :
                   Check(game, actor, targets, a)
                      = ComposedCheck(game, actor, targets, a)
             /\ AbilityTags(a)
                   = AbilityTags("Cop")
                        \cup UNION {ModifierTags(ModifierStacks[a][k]) :
                                       k \in 1..Len(ModifierStacks[a])}

\* the same comparison for the checks that name a target
CheckComposesOnTargets ==
    \A actor \in Players, a \in ModifiedAbilities :
       (\E offer \in held[actor] : offer[1] = a)
          => \A targets \in CheckedTargets \ {<<>>} :
                Check(game, actor, targets, a)
                   = ComposedCheck(game, actor, targets, a)

\* a second night on which Indecisive forbids the target of the first night
\* and allows the other one, under a stack with XShot(2)
ModifierCasesReached ==
    /\ game.day_no = 2 /\ Phase(game) = NIGHT
    /\ \E a \in {"XShot2(Indecisive(Cop))", "Indecisive(XShot2(Cop))"} :
          /\ game.uses["Alice"][a] = 1
          /\ ~Check(game, "Alice", <<"Bob">>, a)
          /\ Check(game, "Alice", <<"Eve">>, a)

----------------------------------------------------------------------------
(* Passive blockers wrapped by XShot: Alice is 1-Shot Bulletproof, 2-Shot  *)
(* Bulletproof or 1-Shot Macho; Bob shoots or protects her and Eve holds   *)
(* the factional kill on her.                                              *)

ShotPassiveRoster ==
    {Roster({Offer("1-Shot Bulletproof", "Alice")},
            {Offer("Vigilante", "Alice")},
            {Offer("Mafia Factional Kill", "Alice")}),
     Roster({Offer("2-Shot Bulletproof", "Alice")},
            {Offer("Vigilante", "Alice")},
            {Offer("Mafia Factional Kill", "Alice")}),
     Roster({Offer("1-Shot Macho", "Alice")},
            {Offer("Doctor", "Alice")},
            {Offer("Mafia Factional Kill", "Alice")})}

SpecShotPassive ==
    InitWith(ShotPassiveRoster, Cap(MaxVisits + 1, MaxCalls, MaxDay))
        /\ [][Next]_vars

\* the passive ability Alice holds
HeldPassive == CHOOSE a \in XShotPassives : Offer(a, "Alice") \in held["Alice"]

RECURSIVE BlocksFrom(_, _)
\* the number of visits the resolved visits of Alice's passive have
\* blocked, from visit k on: each returned the number it blocked
BlocksFrom(g, k) ==
    IF k > Len(g.visits) THEN 0
    ELSE IF /\ g.visits[k].ability = HeldPassive
            /\ g.visits[k].status # PENDING
         THEN g.visits[k].status + BlocksFrom(g, k + 1)
         ELSE BlocksFrom(g, k + 1)

\* C29: a passive blocker wrapped by XShot(N) has blocked at most N visits
\* in all, and once N are blocked its check fails, so that add_passives
\* adds no visit of it in a later phase
C29_XShotPassive ==
    /\ BlocksFrom(game, 1) <= MaxUses(HeldPassive)
    /\ game.uses["Alice"][HeldPassive] >= MaxUses(HeldPassive)
          => ~Check(game, "Alice", <<>>, HeldPassive)

\* add_passives has run at most once in each phase
PassivesAddedOnce(g) ==
    \A j, k \in 1..Len(g.visits) :
       /\ g.visits[j].ability = HeldPassive
       /\ g.visits[k].ability = HeldPassive
       /\ g.visits[j].day_no = g.visits[k].day_no
       /\ g.visits[j].phase = g.visits[k].phase
       => j = k

\* the bound of C29 in the games where add_passives runs once a phase
XShotPassiveAddedOnce ==
    PassivesAddedOnce(game) => C29_XShotPassive

----------------------------------------------------------------------------
(* The Hider: Alice hides behind Bob, Bob is the Vigilante and can shoot   *)
(* Alice, and the Mafia can kill Bob.                                      *)

HiderRoster ==
    {Roster({Offer("Hider", "Bob")},
            {Offer("Vigilante", "Alice")},
            {Offer("Mafia Factional Kill", "Bob")})}

SpecHider ==
    InitWith(HiderRoster, Cap(MaxVisits, MaxCalls, MaxDay)) /\ [][Next]_vars

\* the visits of the phase of game g that were pending when the call began
QueuedForCall(g, ability) ==
    {k \in 1..Len(start.visits) :
        /\ start.visits[k].ability = ability
        /\ IsActive(start, start.visits[k])}

\* C30: when resolve_game returns from a phase in which the living Alice
\* used Hider on Bob, no kill aimed at Alice has killed her, and she has
\* died with cause "Hider" if a kill visit on Bob succeeded in the phase,
\* in whatever order the visits were queued
C30_Hider ==
    (/\ lastStep = "return"
     /\ IsAlive(start, "Alice")
     /\ QueuedForCall(game, "Hider") # {})
       => /\ \A k \in 1..Len(game.death_causes["Alice"]) :
                k > Len(start.death_causes["Alice"])
                   => game.death_causes["Alice"][k] = "Hider"
          /\ (\E k \in QueuedForCall(game, "Mafia Factional Kill") :
                 game.visits[k].status = SUCCESS)
                => "Hider" \in Range(game.death_causes["Alice"])

----------------------------------------------------------------------------
(* The Commuter and the Rolestopper: in one game Alice commutes while Bob  *)
(* shoots at her, in the other Eve rolestops Alice while Bob shoots at her. *)

StopRoster ==
    {Roster({Offer("Commuter", "Alice")},
            {Offer("Vigilante", "Alice")},
            {Offer("Mafia Factional Kill", "Bob")}),
     Roster({},
            {Offer("Vigilante", "Alice")},
            {Offer("Rolestop", "Alice")})}

SpecStop ==
    InitWith(StopRoster, Cap(MaxVisits, MaxCalls, MaxDay)) /\ [][Next]_vars

\* the visits of the phase that were pending when the call began and are
\* aimed at player p or made by p, other than visit c
VisitsAround(p, c) ==
    {k \in 1..Len(start.visits) :
        /\ k # c
        /\ IsActive(start, start.visits[k])
        /\ p \in Range(start.visits[k].targets) \cup {start.visits[k].actor}}

\* C31: a call of resolve_game that began with a pending Commuter visit of
\* a player on themself returns normally, and it leaves with status FAILURE
\* every other visit of the phase that targets the commuter and every other
\* visit of the commuter
C31_Commuter ==
    \A c \in QueuedForCall(game, "Commuter") :
        (/\ lastStep \in {"return", "raise"}
         /\ start.visits[c].targets = <<start.visits[c].actor>>)
           => /\ lastStep = "return"
              /\ \A k \in VisitsAround(start.visits[c].actor, c) :
                    game.visits[k].status = FAILURE

\* every call of resolve_game that began with a pending Commuter visit
\* ends with RuntimeError("Failed to resolve game.")
CommuterAlwaysRaises ==
    (lastStep \in {"return", "raise"} /\ QueuedForCall(game, "Commuter") # {})
        => lastStep = "raise"

\* a call that began with a pending Commuter visit has ended
CommuterCallEnded ==
    lastStep \in {"return", "raise"} /\ QueuedForCall(game, "Commuter") # {}

\* C32: a call of resolve_game that began with a pending non-passive
\* Rolestop visit on a target returns normally, and every other visit of
\* the phase that targets that player and is not unstoppable has status
\* FAILURE and was never performed
C32_Rolestopper ==
    \A c \in QueuedForCall(game, "Rolestop") :
        (/\ lastStep \in {"return", "raise"}
         /\ start.visits[c].ability_type # AT_PASSIVE)
           => /\ lastStep = "return"
              /\ \A k \in 1..Len(start.visits) :
                    (/\ k # c
                     /\ IsActive(start, start.visits[k])
                     /\ Target(start.visits[c]) \in Range(start.visits[k].targets)
                     /\ "unstoppable" \notin game.visits[k].tags)
                       => /\ game.visits[k].status = FAILURE
                          /\ game.visits[k].nperf = 0

\* every call of resolve_game that began with a pending Rolestop visit
\* ends with RuntimeError("Failed to resolve game.")
RolestopAlwaysRaises ==
    (lastStep \in {"return", "raise"} /\ QueuedForCall(game, "Rolestop") # {})
        => lastStep = "raise"

\* a call that began with a pending Rolestop visit has ended
RolestopCallEnded ==
    lastStep \in {"return", "raise"} /\ QueuedForCall(game, "Rolestop") # {}

----------------------------------------------------------------------------
(* The Tracker of test_tracker_roleblocker: Alice roleblocks Eve, Bob      *)
(* tracks Eve, Eve makes the factional kill on Bob; Eve can roleblock      *)
(* Alice as well.                                                          *)

TrackerRoster ==
    {Roster({Offer("Roleblocker", "Eve")},
            {Offer("Tracker", "Eve")},
            {Offer("Mafia Factional Kill", "Bob"), Offer("Roleblocker", "Alice")})}

SpecTracker ==
    InitWith(TrackerRoster, Cap(MaxVisits, MaxCalls, MaxDay)) /\ [][Next]_vars

\* the roleblocking visits of the phase that are aimed at player p and not
\* resolved yet
PendingRoleblocks(g, p) ==
    {k \in Range(GetVisitors(g, p)) :
        IsActive(g, g.visits[k]) /\ "roleblock" \in g.visits[k].tags}

\* the step in which Tracker visit i gets its result
Tracked(i) ==
    /\ game.visits[i].ability = "Tracker"
    /\ game.visits[i].status = PENDING
    /\ game'.visits[i].status = SUCCESS

\* the contents of the results the Tracker sent to player p in this call
NewTrackerResults(p) ==
    {game.private_messages[p][k].content :
        k \in {j \in 1..Len(game.private_messages[p]) :
                 /\ j > Len(start.private_messages[p])
                 /\ game.private_messages[p][j].sender = "Tracker"}}

\* the Tracker visits that were pending when the call began and have
\* succeeded
TrackedInCall ==
    {i \in QueuedForCall(game, "Tracker") : game.visits[i].status = SUCCESS}

\* C33: a Tracker visit on X gets its result in a step before which no
\* roleblocking visit of the phase aimed at X is pending, and when
\* resolve_game returns, every result the call gave lists the targets of
\* the visits of X that are not roleblocked and of no other visit, in
\* whatever order the visits were queued
C33_TrackerAfterRoleblock ==
    /\ [][\A i \in 1..Len(game.visits) :
            Tracked(i) => PendingRoleblocks(game, Target(game.visits[i])) = {}]_vars
    /\ [](lastStep = "return" =>
            \A i \in TrackedInCall :
               NewTrackerResults(game.visits[i].actor) =
                  {TrackerMessage(game, i, Target(game.visits[i]))})

\* resolve_game has returned from a phase in which Bob's track of Eve was
\* queued before Alice's roleblock of Eve and before Eve's kill: the kill
\* is roleblocked and Bob is told that Eve did not target anyone
C33_Witness ==
    /\ lastStep = "return"
    /\ \E i \in TrackedInCall, r, k \in 1..Len(game.visits) :
          /\ i < r /\ i < k
          /\ game.visits[r].ability = "Roleblocker"
          /\ game.visits[r].actor = "Alice"
          /\ game.visits[r].status = SUCCESS
          /\ IsActiveTime(game, game.visits[r])
          /\ game.visits[k].actor = "Eve"
          /\ game.visits[k].targets = <<"Bob">>
          /\ "roleblocked" \in game.visits[k].tags
          /\ IsActiveTime(game, game.visits[k])
          /\ NewTrackerResults("Bob") = {<<"Eve", "did not target anyone.">>}

----------------------------------------------------------------------------
(* The Personal modifier.  Its perform takes visits out of game.visits and *)
(* appends them again, which moves them in the list; it is applied here to *)
(* the game a caller built, visit by visit, outside a run of resolve_game. *)

\* the status of a perform that raised
Raised == -2

\* v.is_active(game) and "factional" in v.tags
IsFactional(g, v) == IsActive(g, v) /\ "factional" \in v.tags

\* factional_visits of Personal's perform, in the order of game.visits
FactionalVisits(g) == SelectSeq(g.visits, LAMBDA v : IsFactional(g, v))

\* game.visits after the first loop of Personal's perform
OtherVisits(g) == SelectSeq(g.visits, LAMBDA v : ~IsFactional(g, v))

\* the position visit i of game.visits has after the first loop
PositionWithout(g, i) ==
    i - Cardinality({k \in 1..(i - 1) : IsFactional(g, g.visits[k])})

RECURSIVE VisibleVisitors(_, _, _)
\* the list Watcher.get_message builds from the visitors of the target:
\* the actor of every visible visit other than the watching visit i
VisibleVisitors(g, visitors, i) ==
    IF visitors = <<>> THEN <<>>
    ELSE LET k == Head(visitors)
         IN (IF visit_is_visible(g, g.visits[k]) /\ k # i
             THEN <<g.visits[k].actor>> ELSE <<>>)
               \o VisibleVisitors(g, Tail(visitors), i)

\* Watcher.get_message
WatcherMessage(g, i, target) ==
    LET visits == VisibleVisitors(g, GetVisitors(g, target), i)
    IN IF visits # <<>> THEN <<target, "was targeted by", visits>>
       ELSE <<target, "was not targeted by anyone.">>

\* Watcher.perform; target, *_ = targets raises ValueError on an empty tuple
WatcherPerform(g, i) ==
    LET v == g.visits[i]
    IN IF v.targets = <<>> THEN Ret(g, Raised)
       ELSE IF \E k \in Range(GetVisitors(g, Target(v))) :
                  /\ IsActive(g, g.visits[k])
                  /\ \E w \in Range(GetVisitors(g, g.visits[k].actor)) :
                        /\ IsActive(g, g.visits[w])
                        /\ "roleblock" \in g.visits[w].tags
       THEN Ret(g, PENDING)
       ELSE Ret(SendPrivate(g, v.actor, "Watcher",
                            WatcherMessage(g, i, Target(v))), SUCCESS)

\* ability.perform of the class Personal wraps
BasePerform(g, i) ==
    IF g.visits[i].ability = "Personal(Watcher)" THEN WatcherPerform(g, i)
    ELSE HiderPerform(g, i)

\* the finally clause of Personal's perform: the visits taken out are
\* appended to game.visits, whatever the base perform did
PutBack(r, factional_visits) ==
    Ret([r.g EXCEPT !.visits = @ \o factional_visits], r.status)

\* Personal's perform without try and finally: a raise of the base perform
\* leaves the visits taken out
PutBackUnlessRaised(r, factional_visits) ==
    IF r.status = Raised THEN r ELSE PutBack(r, factional_visits)

\* perform of Personal.modify_ability without try and finally
PersonalPerformUnguarded(g, i) ==
    PutBackUnlessRaised(
        BasePerform([g EXCEPT !.visits = OtherVisits(g)], PositionWithout(g, i)),
        FactionalVisits(g))

\* perform of Personal.modify_ability, on a visit that is not factional
PersonalPerform(g, i) ==
    PutBack(BasePerform([g EXCEPT !.visits = OtherVisits(g)],
                        PositionWithout(g, i)),
            FactionalVisits(g))

\* visit.perform(game) of a pending visit of a Personal ability
PerformPersonal(i) ==
    /\ pc = "idle"
    /\ calls < cap.calls
    /\ game.visits[i].ability \in PersonalAbilities
    /\ IsActive(game, game.visits[i])
    /\ ~IsFactional(game, game.visits[i])
    /\ \E r \in {PersonalPerform(game, i)} :
          /\ game' = r.g
          /\ lastStep' = IF r.status = Raised THEN "perform raised" ELSE "perform"
    /\ start' = game
    /\ calls' = calls + 1
    /\ UNCHANGED <<applied, lazy_allowed, held, cap, pc, todo, failed_to_resolve,
                   successfully_resolved, outcome, passStart, resolved, spared>>

\* Alice holds the Watcher and the Hider, both Personal, and may pass the
\* Watcher an empty tuple of targets; Bob is a Roleblocker; Eve makes the
\* factional kill, tagged factional as the tests tag it, or untagged
NextPersonal ==
    \/ \E targets \in {<<"Bob">>, <<>>} :
          MakeVisit("Alice", TRUE, targets, "Personal(Watcher)", {})
    \/ MakeVisit("Alice", TRUE, <<"Bob">>, "Personal(Hider)", {})
    \/ MakeVisit("Bob", TRUE, <<"Eve">>, "Roleblocker", {})
    \/ \E tags \in {{"factional"}, {}} :
          MakeVisit("Eve", TRUE, <<"Bob">>, "Mafia Factional Kill", tags)
    \/ \E i \in 1..Len(game.visits) : PerformPersonal(i)
    \/ AdvancePhase

SpecPersonal ==
    InitWith(CatastrophicRoster, Cap(MaxVisits, MaxCalls, MaxDay))
        /\ [][NextPersonal]_vars

\* a perform of a Personal ability has just ended
Performed == lastStep \in {"perform", "perform raised"}

\* C34 as stated: after the perform game.visits holds exactly the visits it
\* held before, the factional visits of the phase moved to the end
C34_PersonalFrame ==
    Performed => game.visits = OtherVisits(start) \o FactionalVisits(start)

\* the visits of game.visits between the first n and the last m
Between(visits, n, m) == SubSeq(visits, n + 1, Len(visits) - m)

\* C34: after the perform of a Personal ability, also one that raised,
\* game.visits begins with the visits it held before that are not active
\* factional visits, in their order, and ends with the active factional
\* visits it held before, in their order; between them are only visits the
\* base perform appended, which a base ability other than the Hider never
\* does
C34_PersonalRestores ==
    Performed =>
       LET kept == OtherVisits(start)
           back == FactionalVisits(start)
       IN /\ Len(game.visits) >= Len(start.visits)
          /\ SubSeq(game.visits, 1, Len(kept)) = kept
          /\ Between(game.visits, Len(game.visits) - Len(back), 0) = back
          /\ \A v \in Range(Between(game.visits, Len(kept), Len(back))) :
                v.ability \in CreatedAbilities
          /\ lastStep = "perform raised"
                => game.visits = kept \o back

\* the perform of the Personal Watcher raised while an active factional
\* visit stood before it in game.visits
C34_Witness ==
    /\ lastStep = "perform raised"
    /\ FactionalVisits(start) # <<>>
    /\ IsFactional(start, start.visits[1])
    /\ game.visits # start.visits

----------------------------------------------------------------------------
(* Win conditions.  Town, Mafia and SerialKiller are Factions; the players *)
(* of one faction share one alignment object, as the players of the tests  *)
(* do, so an alignment is named by its id.                                 *)

\* core.WinResult
ONGOING == 0
WIN == 1
LOSE == -1

\* Faction.check_win that does not look for living opponents
FactionCheckWinAlone(g, self) ==
    IF \E p \in alive_players(g) : AlignmentId(g, p) = self THEN WIN ELSE LOSE

\* Faction.check_win of the faction `self`; the player argument is not read
FactionCheckWin(g, self) ==
    LET faction_alive == \E p \in alive_players(g) : AlignmentId(g, p) = self
        opponent_alive == \E p \in alive_players(g) : AlignmentId(g, p) # self
    IN IF ~faction_alive THEN LOSE
       ELSE IF ~opponent_alive THEN WIN
       ELSE ONGOING

\* bool(game.alive_players): alive_players is a filter object, which
\* defines neither __bool__ nor __len__, so it is true whatever it yields
AlivePlayersTruth(g) == TRUE

\* SerialKiller.check_win with its test replaced by one on the number of
\* living players
SerialKillerCheckWinCounting(g, self) ==
    IF alive_players(g) = {} THEN WIN ELSE FactionCheckWin(g, self)

\* SerialKiller.check_win
SerialKillerCheckWin(g, self) ==
    IF ~AlivePlayersTruth(g) THEN WIN ELSE FactionCheckWin(g, self)

\* player.alignment.check_win(game, player)
check_win(g, player) ==
    IF AlignmentId(g, player) = "Serial Killer"
    THEN SerialKillerCheckWin(g, AlignmentId(g, player))
    ELSE FactionCheckWin(g, AlignmentId(g, player))

\* a caller asks for the win result of a player
CheckWin(player) ==
    /\ pc = "idle"
    /\ applied' = [player |-> player, result |-> check_win(game, player)]
    /\ lastStep' = "check_win"
    /\ UNCHANGED <<game, lazy_allowed, held, cap, pc, todo, failed_to_resolve,
                   successfully_resolved, outcome, calls, start, passStart,
                   resolved, spared>>

\* three players who can shoot each other in a ring, Eve of the Mafia and
\* Alice and Bob each of the Town or a Serial Killer
WinGames ==
    {NewGameOf([p \in Players |-> IF p = "Alice" THEN a
                                   ELSE IF p = "Bob" THEN b ELSE "Mafia"]) :
        a, b \in {"Town", "Serial Killer"}}

WinRoster ==
    {Roster({Offer("Vigilante", "Bob")},
            {Offer("Vigilante", "Eve")},
            {Offer("Mafia Factional Kill", "Alice")})}

NextWin ==
    \/ Next
    \/ \E player \in Players : CheckWin(player)

SpecWin ==
    InitGames(WinRoster, Cap(MaxVisits, MaxCalls, MaxDay), WinGames)
        /\ [][NextWin]_vars

\* C35: the result SerialKiller.check_win gives for a Serial Killer is WIN
\* when no player of the game is alive, and the result of Faction.check_win
\* otherwise
C35_SerialKillerWin ==
    (lastStep = "check_win"
        /\ AlignmentId(game, applied.player) = "Serial Killer")
      => applied.result =
            IF alive_players(game) = {} THEN WIN
            ELSE FactionCheckWin(game, "Serial Killer")

\* while a player is alive, SerialKiller.check_win gives the result of
\* Faction.check_win
SerialKillerOrdinary ==
    (lastStep = "check_win"
        /\ AlignmentId(game, applied.player) = "Serial Killer"
        /\ alive_players(game) # {})
      => applied.result = FactionCheckWin(game, "Serial Killer")

\* the win result of a Serial Killer was asked for with every player dead
SerialKillerAllDead ==
    /\ lastStep = "check_win"
    /\ AlignmentId(game, applied.player) = "Serial Killer"
    /\ alive_players(game) = {}

----------------------------------------------------------------------------
(* Which visits resolve_game performs. *)

\* C36: a step of resolve_game performs a visit only if the visit was
\* active before the step: of the phase and the day of the game and with
\* status PENDING; so no visit of an earlier phase or day and no visit with
\* a terminal status is performed again
C36_PerformsOnlyActive ==
    [][\A i \in 1..Len(game.visits) :
          (i <= Len(game'.visits)
             /\ game'.visits[i].nperf > game.visits[i].nperf)
            => IsActive(game, game.visits[i])]_vars

\* the steps of the loop of attempt_resolve perform only active visits
LoopPerformsOnlyActive ==
    [][\A i \in 1..Len(game.visits) :
          (lastStep' # "begin"
             /\ i <= Len(game'.visits)
             /\ game'.visits[i].nperf > game.visits[i].nperf)
            => IsActive(game, game.visits[i])]_vars

\* an immediate visit has been performed more than once
ImmediatePerformedAgain ==
    \E i \in 1..Len(game.visits) :
        Immediate(game.visits[i].ability) /\ game.visits[i].nperf > 1

----------------------------------------------------------------------------
(* The use counter of an ability wrapped by XShot. *)

\* C37: with every visit queued only after the ability's check passed, a
\* player's use counter of an ability wrapped by XShot(N) never exceeds N,
\* however many visits are queued in a phase before resolve_game runs
C37_UsesWithinShots ==
    \A actor \in Players, a \in XShotAbilities :
        game.uses[actor][a] <= MaxUses(a)

\* the visits of one phase that a player made with ability a
VisitsOfPhase(g, actor, a, day_no, phase) ==
    {k \in 1..Len(g.visits) :
        /\ g.visits[k].actor = actor
        /\ g.visits[k].ability = a
        /\ g.visits[k].day_no = day_no
        /\ g.visits[k].phase = phase}

\* no player has queued an ability twice in one phase
OneVisitAPhase(g) ==
    \A k \in 1..Len(g.visits) :
        Cardinality(VisitsOfPhase(g, g.visits[k].actor, g.visits[k].ability,
                                  g.visits[k].day_no, g.visits[k].phase)) = 1

\* the bound of C37 in the games where no player queues an ability twice in
\* a phase
UsesWithinShotsOneAPhase ==
    OneVisitAPhase(game) => C37_UsesWithinShots

\* resolve_game has logged a use of an ability wrapped by XShot in a game
\* where no player queued an ability twice in a phase
ShotLogged ==
    /\ OneVisitAPhase(game)
    /\ \E actor \in Players, a \in XShotAbilities : game.uses[actor][a] = MaxUses(a)

----------------------------------------------------------------------------
(* What a request to the API takes out of the queue. *)

\* the visit a request has just appended to game.queued_visits
Requested == game'.queued_visits[Len(game'.queued_visits)]

\* C38: a request of player P that queues a visit takes out of the queue
\* no visit another player queued for a personal action of their own
C38_QueueKeepsOthers ==
    [][lastStep' = "request"
         => \A k \in 1..Len(game.queued_visits) :
               LET v == game.queued_visits[k]
               IN (v.ability_type = AT_ACTION /\ v.actor # Requested.actor)
                     => v \in Range(game'.queued_visits)]_vars

\* a request takes out of the queue at most one visit, and only a visit of
\* the requested ability by a player of the requesting player's alignment
QueueTakesSameFaction ==
    [][lastStep' = "request"
         => /\ Len(game'.queued_visits) >= Len(game.queued_visits)
            /\ \A k \in 1..Len(game.queued_visits) :
                  LET v == game.queued_visits[k]
                  IN v \notin Range(game'.queued_visits)
                        => /\ v.ability = Requested.ability
                           /\ game.alignment[v.actor]
                                 = game.alignment[Requested.actor]]_vars

\* Alice and Bob, both Doctors of the Town, have a visit in the queue
BothDoctorsQueued ==
    \E j, k \in 1..Len(game.queued_visits) :
        /\ game.queued_visits[j].actor = "Alice"
        /\ game.queued_visits[k].actor = "Bob"
        /\ game.queued_visits[j].ability = "Doctor"
        /\ game.queued_visits[k].ability = "Doctor"

----------------------------------------------------------------------------
(* Faction.check_win over the factions of a game. *)

\* the factions of the games of WinGames
Factions == {"Town", "Mafia", "Serial Killer"}

\* the factions with a living member
LivingFactions(g) == {AlignmentId(g, p) : p \in alive_players(g)}

\* C39: in every state Faction.check_win gives WIN to at most one faction,
\* gives WIN to no faction without a living member, and gives ONGOING to
\* every faction with a living member while members of two different
\* factions are alive
C39_FactionWin ==
    /\ Cardinality({f \in Factions : FactionCheckWin(game, f) = WIN}) <= 1
    /\ \A f \in Factions \ LivingFactions(game) :
          FactionCheckWin(game, f) # WIN
    /\ Cardinality(LivingFactions(game)) >= 2
          => \A f \in LivingFactions(game) :
                FactionCheckWin(game, f) = ONGOING
    /\ (lastStep = "check_win"
           /\ AlignmentId(game, applied.player) # "Serial Killer")
          => applied.result
                = FactionCheckWin(game, AlignmentId(game, applied.player))

\* a living player of the Town was given WIN in a game of three factions
\* of which only the Town has a living member
C39_Witness ==
    /\ lastStep = "check_win"
    /\ applied.result = WIN
    /\ IsAlive(game, applied.player)
    /\ AlignmentId(game, applied.player) = "Town"
    /\ Cardinality({AlignmentId(game, p) : p \in Players}) = 3
    /\ LivingFactions(game) = {"Town"}

====
